---- MODULE Spec2Model ----
(***************************************************************************)
(* Model of the history-to-branch projection engine of hg2git:            *)
(*   src/hg_reader.py     the revision projector (changeset -> nodes)      *)
(*   src/project_tree.py  branch state, commit builder, orchestrator       *)
(* The git object sink (git_repo), the path tree (lookup_tree) and the     *)
(* generic history reader (history_reader) are not part of src/; the few   *)
(* operations of them that the engine calls are modelled from spec.md.     *)
(***************************************************************************)
EXTENDS Integers, Sequences, FiniteSets, TLC

VARIABLES
    pc,             \* position of project_history_tree.load
    revisions,      \* the changesets read so far (reader record + history revision)
    branches_list,  \* project_history_tree.branches_list, a project_branch each
    rev_infos,      \* every project_branch_rev object ever constructed
    maps,           \* every merged_revisions dictionary object ever constructed
    all_refs,       \* project_history_tree.all_refs: the registered refnames, in order
    commits,        \* sink: the commits made by commit_tree, in order
    queued_refs,    \* sink: the batch of queue_update_ref calls
    repo_refs,      \* sink: refs and tags visible in the target repository
    head_branch,    \* project_history_tree.head_branch
    failed_on,      \* the changeset on which load raised, if it did
    cfg,            \* project configuration: the branch names and tag labels
                    \* that are not mapped to a ref
    repository,     \* hg_repository_reader.repository: the changelog being read
    changectx_dict, \* hg_repository_reader.changectx_dict: the revisions projected
    options,        \* the command line options: convert_hgignore
    exit_status,    \* the exit status of the process, once it has exited
    branches_changed, \* project_history_tree.branches_changed
    sink_calls,     \* sink: the calls made on git_repo, in the order they are made
    git_sha1        \* git_blob.git_sha1: the blobs that have their Git SHA-1

vars == <<pc, revisions, branches_list, rev_infos, maps, all_refs, commits,
          queued_refs, repo_refs, head_branch, failed_on, cfg,
          repository, changectx_dict, options, exit_status, branches_changed,
          sink_calls, git_sha1>>

-----------------------------------------------------------------------------
(* Bounds and input alphabet *)

MaxRevs == 4
MaxMerges == 1
MaxRoots == 2
MaxDecorated == 1

BranchNames == {"default", "feature", "feature/x"}
Paths == <<"a", "b">>
PathSet == {Paths[i] : i \in 1..Len(Paths)}

None == 0           \* a null object reference (object ids start at 1)
NoRev == -1         \* a revision number that is None
UnknownRev == -2    \* a revision id that names no changeset of the stream
NoTree == <<>>      \* a tree (or git tree id) that is None
NoStatus == -1      \* the exit status of a process that is running

\* blob 1 is a regular file, blob 2 an executable one; 0 means no file at the path
empty_tree == [p \in PathSet |-> 0]
TreeA  == [p \in PathSet |-> IF p = "a" THEN 1 ELSE 0]
TreeAB == [p \in PathSet |-> IF p = "a" THEN 2 ELSE 1]
HgTrees == {empty_tree, TreeA, TreeAB}

-----------------------------------------------------------------------------
(* Python dict, kept in insertion order as a sequence of <<key, value>> *)

DictHas(d, k) == \E i \in 1..Len(d) : d[i][1] = k

DictGet(d, k) ==
    IF DictHas(d, k) THEN d[CHOOSE i \in 1..Len(d) : d[i][1] = k][2] ELSE None

DictSet(d, k, v) ==
    IF DictHas(d, k)
    THEN [i \in 1..Len(d) |-> IF d[i][1] = k THEN <<k, v>> ELSE d[i]]
    ELSE Append(d, <<k, v>>)

SeqHas(s, x) == \E i \in 1..Len(s) : s[i] = x

-----------------------------------------------------------------------------
(* Object sink: blobs, index, trees *)

\* git hash-object: one SHA-1 per blob content
hash_object(blob) == blob

\* a call made on git_repo
SinkCall(op, arg) == [op |-> op, arg |-> arg]

initial_git_tree == [p \in PathSet |-> <<0, 0>>]

get_file_mode(blob) == IF blob = 2 THEN 33261 ELSE 33188

\* git write-tree: the tree id is the serialization of the index
write_tree(index) == index

\* git ls-tree of what a tree object must contain for an object tree
TreeEntries(tree) ==
    [p \in PathSet |-> IF tree[p] = 0 THEN <<0, 0>>
                       ELSE <<hash_object(tree[p]), get_file_mode(tree[p])>>]

\* a.compare(b) of the path tree, expanded to files: the differing paths in order
RECURSIVE compare(_, _, _)
compare(old_tree, new_tree, i) ==
    IF i > Len(Paths) THEN <<>>
    ELSE LET p == Paths[i]
         IN (IF old_tree[p] = new_tree[p] THEN <<>>
             ELSE << [path |-> p, obj1 |-> old_tree[p], obj2 |-> new_tree[p]] >>)
            \o compare(old_tree, new_tree, i + 1)

-----------------------------------------------------------------------------
(* Project configuration (project_config is not part of src/) *)

\* cfg.map_branch(name).refname under the default mapping refs/heads/*
BranchRefname(name) ==
    IF name = "default" THEN <<"refs", "heads", "main">>
    ELSE IF name = "feature/x" THEN <<"refs", "heads", "feature", "x">>
    ELSE <<"refs", "heads", name>>

\* cfg.map_tag(label): the default mapping refs/tags/*, the null result as <<>>
map_tag(tag) ==
    IF tag \in cfg.unmapped_tags THEN <<>> ELSE <<"refs", "tags", tag>>

\* cfg.map_ref(refname): no namespace substitution configured
map_ref(refname) == refname

-----------------------------------------------------------------------------
(* hg_reader.py: the revision projector *)

RevNode(action, kind, path, copyfrom_rev, tag, blob) ==
    [action |-> action, kind |-> kind, path |-> path,
     copyfrom_rev |-> copyfrom_rev, tag |-> tag, blob |-> blob]

\* process_file_list / compare_change_contexts: the file nodes of a changeset
RECURSIVE FileNodes(_, _, _)
FileNodes(parent_tree, tree, i) ==
    IF i > Len(Paths) THEN <<>>
    ELSE LET p == Paths[i]
             n == IF tree[p] = parent_tree[p] THEN <<>>
                  ELSE IF tree[p] = 0
                       THEN << RevNode("delete", "file", p, NoRev, "", 0) >>
                  ELSE IF parent_tree[p] = 0
                       THEN << RevNode("add", "file", p, NoRev, "", tree[p]) >>
                  ELSE << RevNode("change", "file", p, NoRev, "", tree[p]) >>
         IN n \o FileNodes(parent_tree, tree, i + 1)

RECURSIVE TagNodes(_, _)
TagNodes(tags, i) ==
    IF i > Len(tags) THEN <<>>
    ELSE << RevNode("tag", "branch", "", NoRev, tags[i], 0) >> \o TagNodes(tags, i + 1)

\* the first parent counted as continued by every child of its branch name
ContinuesParent_every_child(revs, name, p1) ==
    /\ p1 # NoRev
    /\ revs[p1 + 1].branch_name = name

\* the first parent is continued: same branch name, and no child continues it yet
ContinuesParent(revs, name, p1) ==
    /\ p1 # NoRev
    /\ revs[p1 + 1].branch_name = name
    /\ revs[p1 + 1].child_revision = NoRev

\* hg_changectx_revision.__init__: the node list of a changeset.
\* last_child: the changeset is the last entry of p2.children
hg_changectx_revision(revs, name, p1, p2, hgtree, tags, source, last_child) ==
    LET parent_tree == IF p1 = NoRev THEN empty_tree ELSE revs[p1 + 1].hgtree
        branch_nodes ==
            IF p1 = NoRev THEN << RevNode("add", "branch", name, NoRev, "", 0) >>
            ELSE IF ContinuesParent(revs, name, p1) THEN <<>>
            ELSE << RevNode("add", "branch", name, p1, "", 0) >>
        parent_nodes ==
            IF p2 = NoRev THEN <<>>
            ELSE << RevNode("parent", "branch", "", p2, "", 0) >>
                 \o (IF last_child
                     THEN << RevNode("delete", "branch", "", p2, "", 0) >> ELSE <<>>)
        cherrypick_nodes ==
            IF source = NoRev THEN <<>>
            ELSE << RevNode("cherrypick", "branch", "", source, "", 0) >>
    IN branch_nodes \o parent_nodes \o FileNodes(parent_tree, hgtree, 1)
       \o TagNodes(tags, 1) \o cherrypick_nodes

-----------------------------------------------------------------------------
(* project_tree.py: project_branch_rev *)

\* The engine state threaded through the operations of one handler:
\*   revisions, branches, revs, maps, all_refs, commits, queued, repo, head
\*   are the variables of the same meaning; changed is branches_changed,
\*   base_tree the tree being built for the changeset, error an exception
\*   that is propagating.

\* project_branch_rev.__init__
project_branch_rev(st, branch, prev_rev) ==
    LET new_map == (prev_rev = None)
        r == [branch |-> branch, rev |-> NoRev, commit |-> None, rev_commit |-> None,
              staged_git_tree |-> NoTree, committed_git_tree |-> NoTree,
              committed_tree |-> NoTree, staged_tree |-> NoTree,
              prev_rev |-> prev_rev,
              revisions_to_merge |-> <<>>,
              any_changes_present |-> FALSE,
              tree |-> IF prev_rev = None THEN NoTree ELSE st.revs[prev_rev].tree,
              merged_revisions |-> IF new_map THEN Len(st.maps) + 1
                                   ELSE st.revs[prev_rev].merged_revisions,
              parents |-> <<>>, cherry_pick_revs |-> <<>>, props_list |-> <<>>,
              tags |-> <<>>, base_rev |-> None]
    IN [st EXCEPT !.revs = Append(@, r),
                  !.maps = IF new_map THEN Append(@, <<>>) ELSE @]

\* log_to_paragraphs, on the two logs of the input alphabet
log_to_paragraphs(log) == IF log = "" THEN <<>> ELSE <<log>>

\* project_branch_rev.add_revision_props
add_revision_props(st, self, revision) ==
    LET props_list == st.revs[self].props_list
    IN IF props_list # <<>> /\ props_list[1].revision = revision.rev THEN st
       ELSE [st EXCEPT !.revs[self].props_list =
                <<[revision |-> revision.rev, log |-> log_to_paragraphs(revision.log)]>> \o @]

\* project_branch_rev.get_merged_revision
get_merged_revision(st, self, branch) ==
    DictGet(st.maps[st.revs[self].merged_revisions], branch)

\* project_branch_rev.is_merged_from (skip_empty_revs is never passed)
is_merged_from(st, self, rev_info) ==
    LET merged_rev == get_merged_revision(st, self, st.revs[rev_info].branch)
    IN IF st.revs[rev_info].branch = st.revs[self].branch THEN TRUE
       ELSE IF merged_rev = None THEN FALSE
       ELSE st.revs[merged_rev].rev >= st.revs[rev_info].rev

\* set_merged_revision with a new dictionary in place of a copy of the shared one
set_merged_revision_fresh(st, self, merged_rev) ==
    LET prev_rev == st.revs[self].prev_rev
        shared == st.revs[self].merged_revisions = st.revs[prev_rev].merged_revisions
        st1 == IF shared
               THEN [st EXCEPT !.maps = Append(@, <<>>),
                               !.revs[self].merged_revisions = Len(st.maps) + 1]
               ELSE st
    IN [st1 EXCEPT !.maps[st1.revs[self].merged_revisions] =
                    DictSet(@, st.revs[merged_rev].branch, merged_rev)]

\* set_merged_revision writing into the dictionary it shares with prev_rev
set_merged_revision_in_place(st, self, merged_rev) ==
    [st EXCEPT !.maps[st.revs[self].merged_revisions] =
                    DictSet(@, st.revs[merged_rev].branch, merged_rev)]

\* project_branch_rev.set_merged_revision: copy the shared dictionary on first write
set_merged_revision(st, self, merged_rev) ==
    LET prev_rev == st.revs[self].prev_rev
        shared == st.revs[self].merged_revisions = st.revs[prev_rev].merged_revisions
        st1 == IF shared
               THEN [st EXCEPT !.maps = Append(@, st.maps[st.revs[prev_rev].merged_revisions]),
                               !.revs[self].merged_revisions = Len(st.maps) + 1]
               ELSE st
    IN [st1 EXCEPT !.maps[st1.revs[self].merged_revisions] =
                    DictSet(@, st.revs[merged_rev].branch, merged_rev)]

\* the loop of add_parent_revision over add_rev.merged_revisions.values()
RECURSIVE InheritMerged(_, _, _, _)
InheritMerged(st, self, values, i) ==
    IF i > Len(values) THEN st
    ELSE LET rev_info == values[i][2]
         IN InheritMerged(IF is_merged_from(st, self, rev_info) THEN st
                          ELSE set_merged_revision(st, self, rev_info),
                          self, values, i + 1)

\* add_parent_revision keeping the revision added last for a branch
add_parent_revision_last_added(st, self, add_rev) ==
    IF st.revs[add_rev].tree = NoTree THEN st
    ELSE IF is_merged_from(st, self, add_rev) THEN st
    ELSE InheritMerged(
            [st EXCEPT !.revs[self].revisions_to_merge =
                            DictSet(@, st.revs[add_rev].branch, add_rev)],
            self, st.maps[st.revs[add_rev].merged_revisions], 1)

\* project_branch_rev.add_parent_revision
add_parent_revision(st, self, add_rev) ==
    LET to_merge == st.revs[self].revisions_to_merge
        merged_rev == DictGet(to_merge, st.revs[add_rev].branch)
    IN IF st.revs[add_rev].tree = NoTree THEN st
       ELSE IF is_merged_from(st, self, add_rev) THEN st
       ELSE IF merged_rev # None /\ st.revs[merged_rev].rev >= st.revs[add_rev].rev THEN st
       ELSE InheritMerged(
                [st EXCEPT !.revs[self].revisions_to_merge =
                                DictSet(@, st.revs[add_rev].branch, add_rev)],
                self, st.maps[st.revs[add_rev].merged_revisions], 1)

\* the loop of process_parent_revisions over revisions_to_merge.values()
RECURSIVE MergeParents(_, _, _, _)
MergeParents(st, self, values, i) ==
    IF i > Len(values) THEN st
    ELSE LET parent_rev == values[i][2]
         IN MergeParents(
                IF is_merged_from(st, self, parent_rev) THEN st
                ELSE [set_merged_revision(st, self, parent_rev)
                        EXCEPT !.revs[self].parents = Append(@, parent_rev)],
                self, values, i + 1)

\* `if HEAD.tree:` - the tree of the previous HEAD is known
TreeKnown(tree) == tree # NoTree

\* process_parent_revisions with the previous HEAD added after the merged parents
process_parent_revisions_head_last(st, self, HEAD) ==
    LET st1 == [MergeParents(st, self, st.revs[self].revisions_to_merge, 1)
                    EXCEPT !.revs[self].revisions_to_merge = <<>>]
    IN IF TreeKnown(st.revs[HEAD].tree)
       THEN [st1 EXCEPT !.revs[self].parents = Append(@, HEAD)]
       ELSE st1

\* project_branch_rev.process_parent_revisions
process_parent_revisions(st, self, HEAD) ==
    LET st1 == IF TreeKnown(st.revs[HEAD].tree)
               THEN [st EXCEPT !.revs[self].parents = Append(@, HEAD)]
               ELSE st
    IN [MergeParents(st1, self, st1.revs[self].revisions_to_merge, 1)
            EXCEPT !.revs[self].revisions_to_merge = <<>>]

\* project_branch_rev.add_tag
add_tag(st, self, tag_ref) ==
    IF SeqHas(st.revs[self].tags, tag_ref) THEN st
    ELSE [st EXCEPT !.revs[self].tags = Append(@, tag_ref)]

\* project_branch_rev.set_revision; the result is None when revision.tree is None
set_revision(st, self, revision) ==
    LET st1 == [st EXCEPT !.revs[self].tree = revision.tree]
    IN IF revision.tree = NoTree THEN st1
       ELSE add_revision_props([st1 EXCEPT !.revs[self].rev = revision.rev], self, revision)

\* get_stagelist that leaves the deleted files out of the stage list
RECURSIVE get_stagelist_no_delete(_, _)
get_stagelist_no_delete(difflist, i) ==
    IF i > Len(difflist) THEN <<>>
    ELSE LET t == difflist[i]
         IN (IF t.obj2 = 0 THEN <<>>
             ELSE << [path |-> t.path, obj |-> t.obj2, mode |-> get_file_mode(t.obj2)] >>)
            \o get_stagelist_no_delete(difflist, i + 1)

\* project_branch_rev.get_stagelist: deletions as obj 0, additions with their mode
RECURSIVE get_stagelist(_, _)
get_stagelist(difflist, i) ==
    IF i > Len(difflist) THEN <<>>
    ELSE LET t == difflist[i]
         IN << [path |-> t.path, obj |-> t.obj2,
                mode |-> IF t.obj2 = 0 THEN 0 ELSE get_file_mode(t.obj2)] >>
            \o get_stagelist(difflist, i + 1)

\* project_branch_rev.build_difflist
build_difflist(st, self, HEAD) ==
    compare(IF st.revs[HEAD].tree = NoTree THEN empty_tree ELSE st.revs[HEAD].tree,
            IF st.revs[self].tree = NoTree THEN empty_tree ELSE st.revs[self].tree, 1)

\* project_branch.stage_changes: git update-index --index-info on the branch index
RECURSIVE stage_changes(_, _, _)
stage_changes(index, stagelist, i) ==
    IF i > Len(stagelist) THEN index
    ELSE LET item == stagelist[i]
         IN stage_changes(
                [index EXCEPT ![item.path] =
                    IF item.obj = 0 THEN <<0, 0>>
                    ELSE <<hash_object(item.obj), item.mode>>],
                stagelist, i + 1)

-----------------------------------------------------------------------------
(* project_tree.py: refname registry of project_history_tree *)

IsPrefix(s, t) == Len(s) <= Len(t) /\ SubSeq(t, 1, Len(s)) = s

\* all_refs.get_node(ref, match_full_path=True): the path is a registered
\* refname or a directory on the way to one
FullPathMatch(refs, ref) == \E i \in 1..Len(refs) : IsPrefix(ref, refs[i].ref)

\* all_refs.find_path(ref, match_full_path=False) hitting a non-directory:
\* a proper prefix of the path is itself a registered refname
PartialPathConflict(refs, ref) ==
    \E i \in 1..Len(refs) : Len(refs[i].ref) < Len(ref) /\ IsPrefix(refs[i].ref, ref)

\* refname + '___%d' % i
Suffixed(refname, i) ==
    IF i = 0 THEN refname
    ELSE [refname EXCEPT ![Len(refname)] = @ \o "___" \o ToString(i)]

\* range(1, 100) of make_unique_refname
RefnameProbes == 100

\* the probing loop of make_unique_refname: the first i in range(1, 100) whose
\* candidate is not registered, as the suffix number of the candidate; -1 if none
RECURSIVE ProbeRefname(_, _, _)
ProbeRefname(refs, refname, i) ==
    IF i >= RefnameProbes THEN -1
    ELSE IF ~FullPathMatch(refs, Suffixed(refname, i - 1)) THEN i - 1
    ELSE ProbeRefname(refs, refname, i + 1)

\* make_unique_refname that hands out the requested name without probing
make_unique_refname_reuse(st, refname, name) ==
    IF refname = <<>> THEN [st |-> st, ref |-> <<>>]
    ELSE [st |-> [st EXCEPT !.all_refs = Append(@,
                    [ref |-> refname, used_by |-> name, requested |-> refname])],
          ref |-> refname]

\* project_history_tree.make_unique_refname; ref <<>> is the null result
make_unique_refname(st, refname, name) ==
    IF refname = <<>> THEN [st |-> st, ref |-> <<>>]
    ELSE LET k == ProbeRefname(st.all_refs, refname, 1)
             new_ref == Suffixed(refname, k)
         IN IF k < 0 THEN [st |-> st, ref |-> <<>>]
            ELSE IF PartialPathConflict(st.all_refs, new_ref)
            THEN [st |-> st, ref |-> <<>>]
            ELSE [st |-> [st EXCEPT !.all_refs = Append(@,
                            [ref |-> new_ref, used_by |-> name, requested |-> refname])],
                  ref |-> new_ref]

\* project_history_tree.update_ref
update_ref(st, ref, sha1, name) ==
    LET u == make_unique_refname(st, map_ref(ref), name)
    IN IF u.ref = <<>> \/ sha1 = None THEN u.st
       ELSE [u.st EXCEPT !.queued = Append(@, <<u.ref, sha1>>),
                         !.sink = Append(@, SinkCall("queue_update_ref", <<u.ref, sha1>>))]

\* project_history_tree.create_tag: git_repo.tag writes the tag at once
create_tag(st, tagname, sha1, name) ==
    LET u == make_unique_refname(st, map_ref(tagname), name)
    IN IF u.ref = <<>> \/ sha1 = None THEN u.st
       ELSE [u.st EXCEPT !.repo = @ \cup {<<u.ref, sha1>>},
                         !.sink = Append(@, SinkCall("tag", <<u.ref, sha1>>))]

-----------------------------------------------------------------------------
(* project_tree.py: project_branch *)

\* branch_map.revisions_ref is not configured: derived from the refname
RevisionsRef(refname) ==
    IF Len(refname) >= 2 /\ refname[1] = "refs" /\ refname[2] = "heads"
    THEN <<"refs", "revisions">> \o SubSeq(refname, 3, Len(refname))
    ELSE <<"refs", "revisions">> \o Tail(refname)

\* project_branch.__init__ with init_head_rev; the new branch is Len(branches)+1
project_branch(st, name) ==
    LET b == Len(st.branches) + 1
        HEAD == Len(st.revs) + 1
        st1 == project_branch_rev(st, b, None)
        st2 == project_branch_rev(
                    [st1 EXCEPT !.revs[HEAD].staged_git_tree = initial_git_tree],
                    b, HEAD)
    IN [st2 EXCEPT !.branches = Append(@,
            [name |-> name, refname |-> BranchRefname(name),
             revisions_ref |-> RevisionsRef(BranchRefname(name)),
             HEAD |-> HEAD, stage |-> HEAD + 1,
             revisions |-> <<>>, first_revision |-> NoRev,
             index |-> initial_git_tree])]

\* project_branch.set_rev_info
set_rev_info(branch, rev, rev_info) ==
    LET first == IF branch.revisions = <<>> THEN rev ELSE branch.first_revision
        idx == rev - first
        total == Len(branch.revisions)
        last == branch.revisions[total]
    IN IF branch.revisions # <<>> /\ rev < branch.first_revision THEN branch
       ELSE IF idx < total
       THEN [branch EXCEPT !.revisions[idx + 1] = rev_info]
       ELSE [branch EXCEPT !.first_revision = first,
                           !.revisions = @ \o [k \in 1..(idx - total) |-> last]
                                           \o <<rev_info>>]

\* project_branch.get_revision for an integer rev
get_revision(branch, rev) ==
    LET idx == rev - branch.first_revision
    IN IF rev <= 0 \/ branch.revisions = <<>> THEN branch.HEAD
       ELSE IF idx < 0 THEN None
       ELSE IF idx >= Len(branch.revisions) THEN branch.revisions[Len(branch.revisions)]
       ELSE branch.revisions[idx + 1]

\* project_branch_rev.add_branch_to_merge with an integer rev_to_merge
add_branch_to_merge(st, self, source_branch, rev) ==
    IF source_branch = None THEN st
    ELSE LET rev_to_merge == get_revision(st.branches[source_branch], rev)
         IN IF rev_to_merge = None THEN st
            ELSE add_parent_revision(st, self, rev_to_merge)

\* project_branch.apply_tag
apply_tag(st, branch, tag) ==
    LET tag_ref == map_tag(tag)
    IN IF tag_ref # <<>> THEN add_tag(st, st.branches[branch].stage, tag_ref) ELSE st

-----------------------------------------------------------------------------
(* project_tree.py: the commit builder *)

RECURSIVE JoinPaths(_, _)
JoinPaths(paths, i) ==
    IF i > Len(paths) THEN ""
    ELSE paths[i] \o (IF i < Len(paths) THEN ", " ELSE "") \o JoinPaths(paths, i + 1)

\* the paths of the difference list that were added, deleted or changed
RECURSIVE DiffPaths(_, _, _)
DiffPaths(difflist, what, i) ==
    IF i > Len(difflist) THEN <<>>
    ELSE LET t == difflist[i]
             is == IF t.obj1 = 0 THEN "added" ELSE IF t.obj2 = 0 THEN "deleted"
                   ELSE "changed"
         IN (IF is = what THEN <<t.path>> ELSE <<>>) \o DiffPaths(difflist, what, i + 1)

\* the title of make_change_description: "Added ..., deleted ..., changed ..."
ChangeTitle(added, deleted, changed) ==
    LET t1 == IF added # <<>> THEN "Added " \o JoinPaths(added, 1) ELSE ""
        t2 == IF deleted = <<>> THEN t1
              ELSE t1 \o (IF t1 # "" THEN ", deleted " ELSE "Deleted ")
                      \o JoinPaths(deleted, 1)
    IN IF changed = <<>> THEN t2
       ELSE t2 \o (IF t2 # "" THEN ", changed " ELSE "Changed ")
               \o JoinPaths(changed, 1)

\* ', '.join of "%s to %s" for the renamed files
RECURSIVE JoinRenamed(_, _)
JoinRenamed(renamed, i) ==
    IF i > Len(renamed) THEN ""
    ELSE renamed[i][1] \o " to " \o renamed[i][2]
         \o (IF i < Len(renamed) THEN ", " ELSE "") \o JoinRenamed(renamed, i + 1)

\* long_title of make_change_description
LongTitle(added, deleted, changed, renamed) ==
    LET t == ChangeTitle(added, deleted, changed)
    IN IF renamed = <<>> THEN t
       ELSE t \o (IF t # "" THEN ", renamed " ELSE "Renamed ") \o JoinRenamed(renamed, 1)

\* title of make_change_description: the kinds of items, without the paths
ShortTitle(added, deleted, changed, renamed) ==
    LET t1 == IF added # <<>> THEN "Added files" ELSE ""
        t2 == IF deleted = <<>> THEN t1
              ELSE IF t1 # "" THEN t1 \o ", deleted files" ELSE "Deleted files"
        t3 == IF changed = <<>> THEN t2
              ELSE IF t2 # "" THEN t2 \o ", changed files" ELSE "Changed files"
    IN IF renamed = <<>> THEN t3
       ELSE IF t3 # "" THEN t3 \o ", renamed files" ELSE "Renamed files"

\* one line per item: "Added file: %s", ..., "Renamed file: %s to: %s"
RECURSIVE ItemLines(_, _, _)
ItemLines(what, items, i) ==
    IF i > Len(items) THEN <<>>
    ELSE << IF what = "Renamed"
            THEN "Renamed file: " \o items[i][1] \o " to: " \o items[i][2]
            ELSE what \o " file: " \o items[i] >>
         \o ItemLines(what, items, i + 1)

\* '\n'.join(log)
RECURSIVE JoinLog(_, _)
JoinLog(log, i) ==
    IF i > Len(log) THEN ""
    ELSE log[i] \o (IF i < Len(log) THEN "\n" ELSE "") \o JoinLog(log, i + 1)

\* `if len(long_title) < 100`
DescriptionLimit == 100

\* make_change_description with `len(long_title) <= 100`
DescribeChanges_at_most(added, deleted, changed, renamed) ==
    LET long_title == LongTitle(added, deleted, changed, renamed)
        log == ItemLines("Added", added, 1) \o ItemLines("Deleted", deleted, 1)
               \o ItemLines("Changed", changed, 1) \o ItemLines("Renamed", renamed, 1)
    IN IF Len(long_title) <= DescriptionLimit THEN <<long_title>>
       ELSE IF Len(log) <= 1 THEN log
       ELSE <<ShortTitle(added, deleted, changed, renamed), JoinLog(log, 1)>>

\* make_change_description from the lists of items on: the one-line
\* description, or the title and the lines of the items (no directory of the
\* input alphabet is renamed)
DescribeChanges(added, deleted, changed, renamed) ==
    LET long_title == LongTitle(added, deleted, changed, renamed)
        log == ItemLines("Added", added, 1) \o ItemLines("Deleted", deleted, 1)
               \o ItemLines("Changed", changed, 1) \o ItemLines("Renamed", renamed, 1)
    IN IF Len(long_title) < DescriptionLimit THEN <<long_title>>
       ELSE IF Len(log) <= 1 THEN log
       ELSE <<ShortTitle(added, deleted, changed, renamed), JoinLog(log, 1)>>

\* project_branch_rev.make_change_description: the one-line description of the
\* difference to the base tree (no two files of the input alphabet are renames
\* of each other)
make_change_description(st, self, base_rev) ==
    LET base_tree ==
            IF base_rev = None THEN empty_tree
            ELSE IF st.revs[base_rev].committed_tree = NoTree THEN empty_tree
            ELSE st.revs[base_rev].committed_tree
        difflist == compare(base_tree, st.revs[self].tree, 1)
    IN IF base_rev # None /\ st.revs[base_rev].tree = NoTree
          /\ st.revs[base_rev].commit # None
       THEN <<>>
       ELSE DescribeChanges(DiffPaths(difflist, "added", 1),
                            DiffPaths(difflist, "deleted", 1),
                            DiffPaths(difflist, "changed", 1), <<>>)

\* get_combined_revision_props: a message that is still empty gets the revision id
WithRevisionId(msg, rev) ==
    IF msg = <<>> THEN <<"HG-revision: " \o ToString(rev)>> ELSE msg

\* project_branch_rev.get_combined_revision_props: the message paragraphs
\* (decorate_revision_id is off)
get_combined_revision_props(st, self, base_rev) ==
    LET msg == st.revs[self].props_list[1].log
    IN WithRevisionId(IF msg = <<>> THEN make_change_description(st, self, base_rev)
                      ELSE msg,
                      st.revs[self].rev)

\* the short ref of get_cherrypick_str: the refname without refs/ or refs/heads/
ShortRef(branch) ==
    LET r == branch.refname
    IN IF Len(r) >= 2 /\ r[1] = "refs" /\ r[2] = "heads" THEN SubSeq(r, 3, Len(r))
       ELSE IF Len(r) >= 1 /\ r[1] = "refs" THEN Tail(r)
       ELSE r

\* project_branch_rev.get_cherrypick_str: one line per source that has a commit
\* made on it and is not merged
RECURSIVE get_cherrypick_str(_, _, _)
get_cherrypick_str(st, self, i) ==
    LET revs == st.revs[self].cherry_pick_revs
    IN IF i > Len(revs) THEN <<>>
       ELSE (IF st.revs[revs[i]].rev_commit = None \/ is_merged_from(st, self, revs[i])
             THEN <<>>
             ELSE << [commit |-> st.revs[revs[i]].commit,
                      refname |-> ShortRef(st.branches[st.revs[revs[i]].branch]),
                      rev |-> st.revs[revs[i]].rev] >>)
            \o get_cherrypick_str(st, self, i + 1)

\* project_branch_rev.get_commit_revision_props
get_commit_revision_props(st, self, base_rev) ==
    [log |-> get_combined_revision_props(st, self, base_rev),
     cherry_picks |-> get_cherrypick_str(st, self, 1)]

\* the parent loop that takes every parent with a commit of its own as the base
RECURSIVE CollectParents_last_commit(_, _, _, _)
CollectParents_last_commit(st, parents, i, acc) ==
    IF i > Len(parents) THEN acc
    ELSE IF st.revs[parents[i]].commit = None
            \/ SeqHas(acc.parent_commits, st.revs[parents[i]].commit)
         THEN CollectParents_last_commit(st, parents, i + 1, acc)
         ELSE CollectParents_last_commit(st, parents, i + 1,
                [parent_commits |-> Append(acc.parent_commits, st.revs[parents[i]].commit),
                 base_rev |-> parents[i]])

\* the loop of make_commit over rev_info.parents:
\* the parent commits without duplicates, and the base revision
RECURSIVE CollectParents(_, _, _, _)
CollectParents(st, parents, i, acc) ==
    IF i > Len(parents) THEN acc
    ELSE LET parent_rev == parents[i]
             commit == st.revs[parent_rev].commit
         IN IF commit = None \/ SeqHas(acc.parent_commits, commit)
            THEN CollectParents(st, parents, i + 1, acc)
            ELSE CollectParents(st, parents, i + 1,
                    [parent_commits |-> Append(acc.parent_commits, commit),
                     base_rev |->
                        IF acc.base_rev = None
                           \/ st.revs[acc.base_rev].committed_git_tree = initial_git_tree
                        THEN parent_rev ELSE acc.base_rev])

\* the tag loop that updates a lightweight ref for every tag
RECURSIVE ApplyTags_lightweight(_, _, _, _, _)
ApplyTags_lightweight(st, branch, rev_info, commit, i) ==
    IF i > Len(st.revs[rev_info].tags) THEN st
    ELSE ApplyTags_lightweight(
            update_ref(st, st.revs[rev_info].tags[i], commit, st.branches[branch].name),
            branch, rev_info, commit, i + 1)

\* the tag loop of make_commit
RECURSIVE ApplyTags(_, _, _, _, _)
ApplyTags(st, branch, rev_info, commit, i) ==
    LET tags == st.revs[rev_info].tags
        props_list == st.revs[rev_info].props_list
        name == st.branches[branch].name
    IN IF i > Len(tags) THEN st
       ELSE ApplyTags(
                IF props_list # <<>> /\ IsPrefix(<<"refs", "tags">>, tags[i])
                   /\ props_list[1].log # <<>>
                THEN create_tag(st, tags[i], commit, name)
                ELSE update_ref(st, tags[i], commit, name),
                branch, rev_info, commit, i + 1)

\* the loop of build_stagelist that hashes every blob of the stage list
RECURSIVE HashStaged_every_blob(_, _, _)
HashStaged_every_blob(st, stagelist, i) ==
    IF i > Len(stagelist) THEN st
    ELSE LET obj == stagelist[i].obj
         IN HashStaged_every_blob(
                IF obj = 0 THEN st
                ELSE [st EXCEPT !.hashed = @ \cup {obj},
                                !.sink = Append(@, SinkCall("hash_object", obj))],
                stagelist, i + 1)

\* the loop of build_stagelist over the stage list: hash_object is called for
\* each blob that has no Git SHA-1 yet
RECURSIVE HashStaged(_, _, _)
HashStaged(st, stagelist, i) ==
    IF i > Len(stagelist) THEN st
    ELSE LET obj == stagelist[i].obj
         IN HashStaged(
                IF obj = 0 \/ obj \in st.hashed THEN st
                ELSE [st EXCEPT !.hashed = @ \cup {obj},
                                !.sink = Append(@, SinkCall("hash_object", obj))],
                stagelist, i + 1)

\* the end of build_stagelist: the blobs are hashed, staged_tree and
\* any_changes_present are set
Staged(st, self, stagelist) ==
    [st |-> [HashStaged(st, stagelist, 1)
                EXCEPT !.revs[self].staged_tree = st.revs[self].tree,
                       !.revs[self].any_changes_present = (stagelist # <<>>)],
     stagelist |-> stagelist]

\* project_branch_rev.build_stagelist: parents processed, the stage list built
build_stagelist(st, self, HEAD) ==
    Staged(process_parent_revisions(st, self, HEAD), self,
           get_stagelist(build_difflist(st, self, HEAD), 1))

\* project_branch_rev.apply_stagelist: the index updated and written as a tree,
\* or the staged tree of the previous revision when nothing is staged
apply_stagelist(built, self) ==
    LET st == built.st
        b == st.revs[self].branch
        index == stage_changes(st.branches[b].index, built.stagelist, 1)
    IN IF built.stagelist # <<>>
       THEN [st EXCEPT !.branches[b].index = index,
                       !.revs[self].staged_git_tree = write_tree(index),
                       !.sink = @ \o << SinkCall("update_index", built.stagelist),
                                        SinkCall("write_tree", b) >>]
       ELSE [st EXCEPT !.revs[self].staged_git_tree =
                            st.revs[st.revs[self].prev_rev].staged_git_tree]

\* need_commit without the test of the parent count
need_commit_tree_only(staged_git_tree, parent_git_tree, parent_commits) ==
    staged_git_tree # parent_git_tree

\* need_commit of make_commit
need_commit(staged_git_tree, parent_git_tree, parent_commits) ==
    staged_git_tree # parent_git_tree \/ Len(parent_commits) > 1

\* project_branch.set_head_revision
set_head_revision(st, branch, revision) ==
    LET rev_info == st.branches[branch].stage
    IN [set_revision(st, rev_info, revision)
            EXCEPT !.branches[branch] = set_rev_info(@, revision.rev, rev_info)]

\* make_commit creating the next stage before the stagelist is built
StageRevision_stage_first(st, branch, rev_info, HEAD) ==
    apply_stagelist(
        build_stagelist(
            project_branch_rev(
                [st EXCEPT !.branches[branch].HEAD = rev_info,
                           !.branches[branch].stage = Len(st.revs) + 1],
                branch, rev_info),
            rev_info, HEAD),
        rev_info)

\* make_commit: the stage list built and applied, the next stage revision made
StageRevision(st, branch, rev_info, HEAD) ==
    project_branch_rev(
        [apply_stagelist(
            build_stagelist([st EXCEPT !.branches[branch].HEAD = rev_info],
                            rev_info, HEAD),
            rev_info)
         EXCEPT !.branches[branch].stage = Len(st.revs) + 1],
        branch, rev_info)

\* make_commit: git_repo.commit_tree, the ref of the revision, the commit
\* recorded as made on this revision
CommitTree(st, branch, rev_info, parent_commits, rev_props, commit) ==
    LET b == st.branches[branch]
        staged == st.revs[rev_info].staged_git_tree
        c == [tree |-> staged, parents |-> parent_commits,
              log |-> rev_props.log, cherry_picks |-> rev_props.cherry_picks,
              branch |-> branch, rev |-> st.revs[rev_info].rev,
              rev_info |-> rev_info]
    IN [(IF b.revisions_ref # <<>>
         THEN update_ref([st EXCEPT !.commits = Append(@, c),
                                    !.sink = Append(@, SinkCall("commit_tree", commit))],
                         b.revisions_ref \o <<"r" \o ToString(st.revs[rev_info].rev)>>,
                         commit, b.name)
         ELSE [st EXCEPT !.commits = Append(@, c),
                         !.sink = Append(@, SinkCall("commit_tree", commit))])
        EXCEPT !.revs[rev_info].rev_commit = commit,
               !.revs[rev_info].committed_git_tree = staged,
               !.revs[rev_info].committed_tree = st.revs[rev_info].tree]

\* make_commit that records the committed trees only of a commit it makes
CommitRevision_made_only(st, branch, rev_info) ==
    LET found == CollectParents(st, st.revs[rev_info].parents, 1,
                                [parent_commits |-> <<>>, base_rev |-> None])
        base_rev == found.base_rev
        parent_git_tree == IF base_rev = None THEN initial_git_tree
                           ELSE st.revs[base_rev].committed_git_tree
        parent_tree == IF base_rev = None THEN NoTree
                       ELSE st.revs[base_rev].committed_tree
        need == need_commit(st.revs[rev_info].staged_git_tree, parent_git_tree,
                            found.parent_commits)
        commit == IF need THEN Len(st.commits) + 1
                  ELSE IF base_rev = None THEN None ELSE st.revs[base_rev].commit
    IN [ApplyTags(
            IF need
            THEN CommitTree(st, branch, rev_info, found.parent_commits,
                            get_commit_revision_props(st, rev_info, base_rev), commit)
            ELSE st,
            branch, rev_info, commit, 1)
        EXCEPT !.revs[rev_info].commit = commit,
               !.revs[rev_info].base_rev = base_rev]

\* make_commit from the parent loop on: the commit made or inherited, the tags
CommitRevision(st, branch, rev_info) ==
    LET found == CollectParents(st, st.revs[rev_info].parents, 1,
                                [parent_commits |-> <<>>, base_rev |-> None])
        base_rev == found.base_rev
        parent_git_tree == IF base_rev = None THEN initial_git_tree
                           ELSE st.revs[base_rev].committed_git_tree
        parent_tree == IF base_rev = None THEN NoTree
                       ELSE st.revs[base_rev].committed_tree
        need == need_commit(st.revs[rev_info].staged_git_tree, parent_git_tree,
                            found.parent_commits)
        commit == IF need THEN Len(st.commits) + 1
                  ELSE IF base_rev = None THEN None ELSE st.revs[base_rev].commit
    IN [ApplyTags(
            IF need
            THEN CommitTree(st, branch, rev_info, found.parent_commits,
                            get_commit_revision_props(st, rev_info, base_rev), commit)
            ELSE [st EXCEPT !.revs[rev_info].committed_git_tree = parent_git_tree,
                            !.revs[rev_info].committed_tree = parent_tree],
            branch, rev_info, commit, 1)
        EXCEPT !.revs[rev_info].commit = commit,
               !.revs[rev_info].base_rev = base_rev]

\* project_branch.make_commit (the target repository is configured)
make_commit(st, branch, revision) ==
    IF revision.tree = NoTree
    THEN set_revision(st, st.branches[branch].stage, revision)
    ELSE CommitRevision(
            StageRevision(set_head_revision(st, branch, revision), branch,
                          st.branches[branch].stage, st.branches[branch].HEAD),
            branch, st.branches[branch].stage)

\* finalize that registers the refname of the branch and queues nothing
finalize_registers_only(st, branch) ==
    LET b == st.branches[branch]
    IN IF TreeKnown(st.revs[b.HEAD].tree)
       THEN make_unique_refname(st, map_ref(b.refname), b.name).st
       ELSE st

\* project_branch.finalize
finalize(st, branch) ==
    LET b == st.branches[branch]
        sha1 == st.revs[b.HEAD].commit
    IN IF sha1 = None
       THEN IF TreeKnown(st.revs[b.HEAD].tree)
            THEN make_unique_refname(st, map_ref(b.refname), b.name).st
            ELSE st
       ELSE IF b.refname # <<>> THEN update_ref(st, b.refname, sha1, b.name)
       ELSE st

\* finalize_branches that stops after the first branch
finalize_branches_first_only(st, i) ==
    IF i > Len(st.branches) THEN st ELSE finalize(st, i)

\* project_history_tree.finalize_branches
RECURSIVE finalize_branches(_, _)
finalize_branches(st, i) ==
    IF i > Len(st.branches) THEN st
    ELSE finalize_branches(finalize(st, i), i + 1)

-----------------------------------------------------------------------------
(* project_tree.py: the orchestrator, project_history_tree *)

\* the changeset being applied: history_reader.HEAD()
Cur(st) == st.revisions[Len(st.revisions)]

\* set_branch_changed without the test of membership
set_branch_changed_every_mark(st, branch) ==
    [st EXCEPT !.changed = Append(@, branch)]

\* project_history_tree.set_branch_changed
set_branch_changed(st, branch) ==
    IF SeqHas(st.changed, branch) THEN st
    ELSE [st EXCEPT !.changed = Append(@, branch)]

\* the null result of get_branch_map
NoBranchMap == ""

\* project_history_tree.get_branch_map: the branch map of a name, or null
\* when no configuration maps it or the mapping has an empty refname
get_branch_map(name) ==
    IF name \in cfg.unmapped_branches THEN NoBranchMap ELSE name

\* get_parent_revision_tree that starts from the branch and tree of the first
\* parent also when the changeset does not continue the branch of that parent
get_parent_revision_tree_first_parent(st) ==
    LET p1 == Cur(st).p1
        n == Len(st.revisions)
    IN IF p1 # NoRev
       THEN LET parent == st.revisions[p1 + 1]
            IN [st EXCEPT !.head = parent.branch,
                          !.revisions[n].branch = parent.branch,
                          !.base_tree = IF parent.tree # NoTree THEN parent.tree
                                        ELSE empty_tree]
       ELSE [st EXCEPT !.head = None,
                       !.revisions[n].branch = None,
                       !.base_tree = empty_tree]

\* project_history_tree.get_parent_revision_tree
get_parent_revision_tree(st) ==
    LET parent_revision == Cur(st).parent_revision
        n == Len(st.revisions)
    IN IF parent_revision # NoRev
       THEN LET parent == st.revisions[parent_revision + 1]
            IN [st EXCEPT !.head = parent.branch,
                          !.revisions[n].branch = parent.branch,
                          !.base_tree = IF parent.tree # NoTree THEN parent.tree
                                        ELSE empty_tree]
       ELSE [st EXCEPT !.head = None,
                       !.revisions[n].branch = None,
                       !.base_tree = empty_tree]

\* project_history_tree.apply_file_node, with history_reader.apply_file_node
apply_file_node(st, node) ==
    [st EXCEPT !.base_tree[node.path] = IF node.action = "delete" THEN 0 ELSE node.blob]

\* the add action of apply_branch_node: the new branch becomes
\* the branch of the changeset
AddBranch(st, name) ==
    [project_branch(st, name)
        EXCEPT !.head = Len(st.branches) + 1,
               !.revisions[Len(st.revisions)].branch = Len(st.branches) + 1]

\* the tail of apply_branch_node shared by the add and parent actions
AddCopySource(st, node, branch) ==
    LET copy_source_rev == st.revisions[node.copyfrom_rev + 1]
    IN IF branch = None THEN [st EXCEPT !.error = TRUE]
       ELSE set_branch_changed(
                [add_branch_to_merge(st, st.branches[branch].stage,
                                     copy_source_rev.branch, copy_source_rev.rev)
                    EXCEPT !.base_tree = IF node.action = "add"
                                         THEN copy_source_rev.tree ELSE @],
                branch)

\* the cherrypick action with a get_revision that returns None for an unknown
\* id: the attribute access on None is not caught by the except clause
CherryPick_unknown_is_None(st, node, branch) ==
    IF node.copyfrom_rev = UnknownRev THEN [st EXCEPT !.error = TRUE]
    ELSE LET source == st.revisions[node.copyfrom_rev + 1]
         IN IF source.branch = None \/ branch = None
            THEN [st EXCEPT !.error = TRUE]
            ELSE [st EXCEPT !.revs[st.branches[branch].stage].cherry_pick_revs =
                                <<get_revision(st.branches[source.branch], source.rev)>>,
                            !.error = TRUE]

\* the cherrypick action of apply_branch_node. history_reader.get_revision
\* raises Exception_history_parse for an id that names no revision: the except
\* clause prints the warning and the node is skipped. A source without branch
\* and a changeset without branch end in AttributeError, and so does the call
\* of stage.add_dependency, which no class defines.
CherryPick(st, node, branch) ==
    IF node.copyfrom_rev = UnknownRev THEN st
    ELSE LET source == st.revisions[node.copyfrom_rev + 1]
         IN IF source.branch = None \/ branch = None
            THEN [st EXCEPT !.error = TRUE]
            ELSE [st EXCEPT !.revs[st.branches[branch].stage].cherry_pick_revs =
                                <<get_revision(st.branches[source.branch], source.rev)>>,
                            !.error = TRUE]

\* project_history_tree.apply_branch_node
apply_branch_node(st, node) ==
    LET branch == st.head
    IN CASE node.action = "delete" ->
              IF st.revisions[node.copyfrom_rev + 1].branch = branch
              THEN [st EXCEPT !.head = None, !.base_tree = empty_tree]
              ELSE st
         [] node.action = "tag" ->
              IF branch # None
              THEN set_branch_changed(apply_tag(st, branch, node.tag), branch)
              ELSE st
         [] node.action = "cherrypick" -> CherryPick(st, node, branch)
         [] node.action = "add" ->
              IF get_branch_map(node.path) = NoBranchMap THEN st
              ELSE IF node.copyfrom_rev = NoRev
              THEN AddBranch(st, get_branch_map(node.path))
              ELSE AddCopySource(AddBranch(st, get_branch_map(node.path)), node,
                                 Len(st.branches) + 1)
         [] node.action = "parent" -> AddCopySource(st, node, branch)
         [] OTHER -> st

\* project_history_tree.apply_node; a file node applied to a tree that is None
\* (the tree of a copy source that has none) raises AttributeError
apply_node(st, node) ==
    IF node.kind = "branch" THEN apply_branch_node(st, node)
    ELSE IF st.base_tree = NoTree THEN [st EXCEPT !.error = TRUE]
    ELSE IF st.head # None THEN set_branch_changed(apply_file_node(st, node), st.head)
    ELSE apply_file_node(st, node)

\* the loop over the nodes taken from the last node to the first
RECURSIVE ApplyNodes_last_first(_, _, _)
ApplyNodes_last_first(st, nodes, i) ==
    IF i > Len(nodes) \/ st.error THEN st
    ELSE ApplyNodes_last_first(apply_node(st, nodes[Len(nodes) + 1 - i]), nodes, i + 1)

\* history_reader.apply_revision: the loop over revision.nodes
RECURSIVE ApplyNodes(_, _, _)
ApplyNodes(st, nodes, i) ==
    IF i > Len(nodes) \/ st.error THEN st
    ELSE ApplyNodes(apply_node(st, nodes[i]), nodes, i + 1)

RECURSIVE MakeCommits(_, _)
MakeCommits(st, i) ==
    IF i > Len(st.changed) THEN st
    ELSE MakeCommits(make_commit(st, st.changed[i], Cur(st)), i + 1)

\* apply_revision: the tree of the changeset is kept, every changed branch commits
CommitChanged(st) ==
    IF st.error THEN st
    ELSE [MakeCommits([st EXCEPT !.revisions[Len(st.revisions)].tree = st.base_tree], 1)
            EXCEPT !.changed = <<>>]

\* project_history_tree.apply_revision, with history_reader.apply_revision
apply_revision(st, nodes) ==
    CommitChanged(ApplyNodes(get_parent_revision_tree(st), nodes, 1))

-----------------------------------------------------------------------------
(* The conversion run: project_history_tree.load *)

State ==
    [revisions |-> revisions, branches |-> branches_list, revs |-> rev_infos,
     maps |-> maps, all_refs |-> all_refs, commits |-> commits,
     queued |-> queued_refs, repo |-> repo_refs, head |-> head_branch,
     changed |-> branches_changed, sink |-> sink_calls, hashed |-> git_sha1,
     base_tree |-> empty_tree, error |-> FALSE]

Becomes(st) ==
    /\ revisions' = st.revisions
    /\ branches_list' = st.branches
    /\ rev_infos' = st.revs
    /\ maps' = st.maps
    /\ all_refs' = st.all_refs
    /\ commits' = st.commits
    /\ queued_refs' = st.queued
    /\ repo_refs' = st.repo
    /\ head_branch' = st.head
    /\ branches_changed' = st.changed
    /\ sink_calls' = st.sink
    /\ git_sha1' = st.hashed

Init ==
    /\ pc = "loading"
    /\ revisions = <<>>
    /\ branches_list = <<>>
    /\ rev_infos = <<>>
    /\ maps = <<>>
    /\ all_refs = <<>>
    /\ commits = <<>>
    /\ queued_refs = <<>>
    /\ repo_refs = {}
    /\ head_branch = None
    /\ failed_on = NoRev
    /\ exit_status = NoStatus
    /\ branches_changed = <<>>
    /\ sink_calls = <<>>
    /\ git_sha1 = {}
    /\ cfg = [unmapped_branches |-> {}, unmapped_tags |-> {}]
    /\ repository = <<>>
    /\ changectx_dict = <<>>
    /\ options = [convert_hgignore |-> FALSE]

TagLabels == {"v1"}
Logs == {"", "msg"}

\* The file changes of the input alphabet: a changeset keeps the files of its
\* first parent or makes the next change of the cycle
\* (nothing) -> a added -> a changed, b added -> both deleted
NextTree(tree) ==
    IF tree = empty_tree THEN TreeA ELSE IF tree = TreeA THEN TreeAB ELSE empty_tree

Merges == {i \in 1..Len(revisions) : revisions[i].p2 # NoRev}
Roots == {i \in 1..Len(revisions) : revisions[i].p1 = NoRev}

\* a changeset without tag, with a log, without graft source, on a plain name
Plain(name, tags, log, source) ==
    tags = <<>> /\ log = "msg" /\ source = NoRev /\ name # "feature/x"

Decorated == {i \in 1..Len(revisions) :
                ~Plain(revisions[i].branch_name, revisions[i].tags,
                       revisions[i].log, revisions[i].source)}

\* The changesets the reader can yield next: parents precede children, a
\* changeset has at most two parents, a parent whose children list was
\* exhausted gets no further child, a changeset without parent starts "default".
\* Tags, empty logs, graft sources and the nested branch name are drawn for
\* streams of one root without merges.
NextChangeset(name, p1, p2, hgtree, tags, log, source, last_child) ==
    LET n == Len(revisions)
        parent_tree == IF p1 = NoRev THEN empty_tree ELSE revisions[p1 + 1].hgtree
    IN /\ name \in BranchNames
       /\ p1 \in {NoRev} \cup 0..(n - 1)
       /\ p2 \in {NoRev} \cup (0..(n - 1) \ {p1})
       /\ p1 = NoRev => p2 = NoRev /\ name = "default" /\ Cardinality(Roots) < MaxRoots
       /\ p1 # NoRev => ~revisions[p1 + 1].no_more_children
       /\ p2 # NoRev => /\ ~revisions[p2 + 1].no_more_children
                        /\ Cardinality(Merges) < MaxMerges
       /\ hgtree \in {parent_tree, NextTree(parent_tree)}
       /\ tags \in {<<>>} \cup {<<t>> : t \in TagLabels}
       \* changectx.tags(): a tag of the repository names one changeset
       /\ \A i \in 1..n : \A k \in 1..Len(tags) : ~SeqHas(revisions[i].tags, tags[k])
       /\ log \in Logs
       /\ source \in {NoRev, UnknownRev} \cup 0..(n - 1)
       /\ source # NoRev => tags = <<>> /\ log = "msg"
       /\ ~Plain(name, tags, log, source) =>
            /\ Cardinality(Decorated) < MaxDecorated
            /\ Merges = {} /\ p2 = NoRev
            /\ Cardinality(Roots \cup (IF p1 = NoRev THEN {n + 1} ELSE {})) <= 1
       /\ Decorated # {} =>
            /\ p2 = NoRev
            /\ p1 # NoRev
       /\ last_child \in BOOLEAN
       /\ last_child => p2 # NoRev /\ revisions[p2 + 1].child_revision = NoRev

\* read_revisions yields the next changeset and apply_revision processes it
Yielded(name, p1, p2, hgtree, tags, log, source, last_child) ==
    LET n == Len(revisions)
        continues == ContinuesParent(revisions, name, p1)
        revision == [rev |-> n, branch_name |-> name, p1 |-> p1, p2 |-> p2,
                     hgtree |-> hgtree, tags |-> tags, log |-> log, source |-> source,
                     child_revision |-> NoRev, no_more_children |-> FALSE,
                     parent_revision |-> IF continues THEN p1 ELSE NoRev,
                     branch |-> None, tree |-> NoTree]
        revs1 == IF continues
                 THEN [revisions EXCEPT ![p1 + 1].child_revision = n] ELSE revisions
        revs2 == IF last_child
                 THEN [revs1 EXCEPT ![p2 + 1].no_more_children = TRUE] ELSE revs1
        nodes == hg_changectx_revision(revisions, name, p1, p2, hgtree, tags,
                                       source, last_child)
    IN apply_revision([State EXCEPT !.revisions = Append(revs2, revision)], nodes)

\* the state after a changeset was applied; an exception ends the run
Applied(st) ==
    /\ Becomes(st)
    /\ pc' = IF st.error THEN "failed" ELSE pc
    /\ failed_on' = IF st.error THEN Len(revisions) ELSE failed_on
    /\ UNCHANGED <<cfg, options, exit_status>>

\* one iteration of the loop of load: a changeset is read and applied. When
\* applying it raises, load runs shutdown and the exception ends the run.
LoadRevision ==
    /\ pc = "loading"
    /\ Len(revisions) < MaxRevs
    /\ \E p1 \in NoRev..(Len(revisions) - 1) :
       \E p2 \in IF p1 = NoRev \/ Cardinality(Merges) >= MaxMerges THEN {NoRev}
                 ELSE NoRev..(Len(revisions) - 1) :
       \E name \in IF p1 = NoRev THEN {"default"} ELSE BranchNames :
       \E hgtree \in HgTrees, last_child \in IF p2 = NoRev THEN {FALSE} ELSE BOOLEAN :
       \E tags \in {<<>>} \cup {<<t>> : t \in TagLabels}, log \in Logs,
          source \in IF p2 = NoRev THEN UnknownRev..(Len(revisions) - 1) ELSE {NoRev} :
        /\ NextChangeset(name, p1, p2, hgtree, tags, log, source, last_child)
        /\ Applied(Yielded(name, p1, p2, hgtree, tags, log, source, last_child))
        /\ UNCHANGED <<repository, changectx_dict>>

\* the stream ended: finalize_branches
FinalizeBranches ==
    /\ pc = "loading"
    /\ Becomes(finalize_branches(State, 1))
    /\ pc' = "finalized"
    /\ UNCHANGED <<failed_on, cfg, repository, changectx_dict, options, exit_status>>

\* git_repo.commit_refs_update: the queued ref updates are applied as one batch
CommitRefsUpdate ==
    /\ pc = "finalized"
    /\ repo_refs' = repo_refs \cup {queued_refs[i] : i \in 1..Len(queued_refs)}
    /\ pc' = "done"
    /\ UNCHANGED <<revisions, branches_list, rev_infos, maps, all_refs, commits,
                   queued_refs, head_branch, failed_on, cfg,
                   repository, changectx_dict, options, exit_status,
                   branches_changed, sink_calls, git_sha1>>

\* KeyboardInterrupt while load is running
Interrupt ==
    /\ pc \in {"loading", "finalized"}
    /\ pc' = "interrupted"
    /\ UNCHANGED <<revisions, branches_list, rev_infos, maps, all_refs, commits,
                   queued_refs, repo_refs, head_branch, failed_on, cfg,
                   repository, changectx_dict, options, exit_status,
                   branches_changed, sink_calls, git_sha1>>

Next ==
    \/ LoadRevision
    \/ FinalizeBranches
    \/ CommitRefsUpdate
    \/ Interrupt

Spec == Init /\ [][Next]_vars

\* The run under a configuration that maps neither the branch name "feature"
\* nor the tag label "v1"
InitUnmapped ==
    /\ pc = "loading"
    /\ revisions = <<>>
    /\ branches_list = <<>>
    /\ rev_infos = <<>>
    /\ maps = <<>>
    /\ all_refs = <<>>
    /\ commits = <<>>
    /\ queued_refs = <<>>
    /\ repo_refs = {}
    /\ head_branch = None
    /\ failed_on = NoRev
    /\ exit_status = NoStatus
    /\ branches_changed = <<>>
    /\ sink_calls = <<>>
    /\ git_sha1 = {}
    /\ cfg = [unmapped_branches |-> {"feature"}, unmapped_tags |-> {"v1"}]
    /\ repository = <<>>
    /\ changectx_dict = <<>>
    /\ options = [convert_hgignore |-> FALSE]

SpecUnmapped == InitUnmapped /\ [][Next]_vars

-----------------------------------------------------------------------------
(* The run in which history_reader hands apply_revision a revision whose tree *)
(* is None                                                                    *)

MaxNullTrees == 1

\* the changesets applied with a tree that is None
NullTrees == {i \in 1..Len(revisions) : revisions[i].tree = NoTree}

\* apply_revision for a revision whose tree stays None: every changed branch
\* is asked to commit it
apply_revision_null_tree(st, nodes) ==
    LET applied == ApplyNodes(get_parent_revision_tree(st), nodes, 1)
    IN IF applied.error THEN applied
       ELSE [MakeCommits(applied, 1) EXCEPT !.changed = <<>>]

\* read_revisions yields the next changeset and apply_revision processes it,
\* leaving its tree None
YieldedNullTree(name, p1, tags, log) ==
    LET n == Len(revisions)
        continues == ContinuesParent(revisions, name, p1)
        revision == [rev |-> n, branch_name |-> name, p1 |-> p1, p2 |-> NoRev,
                     hgtree |-> revisions[p1 + 1].hgtree, tags |-> tags, log |-> log,
                     source |-> NoRev,
                     child_revision |-> NoRev, no_more_children |-> FALSE,
                     parent_revision |-> IF continues THEN p1 ELSE NoRev,
                     branch |-> None, tree |-> NoTree]
        revs1 == IF continues
                 THEN [revisions EXCEPT ![p1 + 1].child_revision = n] ELSE revisions
        nodes == hg_changectx_revision(revisions, name, p1, NoRev,
                                       revisions[p1 + 1].hgtree, tags, NoRev, FALSE)
    IN apply_revision_null_tree([State EXCEPT !.revisions = Append(revs1, revision)],
                                nodes)

\* one iteration of the loop of load for a changeset whose tree is None
LoadNullTree ==
    /\ pc = "loading"
    /\ Len(revisions) < MaxRevs
    /\ Cardinality(NullTrees) < MaxNullTrees
    /\ \E p1 \in 0..(Len(revisions) - 1) :
       \E name \in BranchNames :
       \E tags \in {<<>>} \cup {<<t>> : t \in TagLabels}, log \in Logs :
        /\ NextChangeset(name, p1, NoRev, revisions[p1 + 1].hgtree, tags, log,
                         NoRev, FALSE)
        /\ Applied(YieldedNullTree(name, p1, tags, log))
        /\ UNCHANGED <<repository, changectx_dict>>

NextNullTree ==
    \/ LoadRevision
    \/ LoadNullTree
    \/ FinalizeBranches
    \/ CommitRefsUpdate

SpecNullTree == Init /\ [][NextNullTree]_vars

-----------------------------------------------------------------------------
(* The run over a repository in which a merge changeset has an empty         *)
(* description                                                                *)

\* one iteration of the loop of load for a merge changeset whose log is empty
LoadMergeWithoutLog ==
    /\ pc = "loading"
    /\ Len(revisions) < MaxRevs
    /\ Cardinality(Merges) < MaxMerges
    /\ Decorated = {}
    /\ \E p1 \in 0..(Len(revisions) - 1) :
       \E p2 \in 0..(Len(revisions) - 1) \ {p1} :
       \E name \in BranchNames \ {"feature/x"} :
       \E hgtree \in {revisions[p1 + 1].hgtree, NextTree(revisions[p1 + 1].hgtree)} :
       \E last_child \in BOOLEAN :
        /\ ~revisions[p1 + 1].no_more_children
        /\ ~revisions[p2 + 1].no_more_children
        /\ last_child => revisions[p2 + 1].child_revision = NoRev
        /\ Applied(Yielded(name, p1, p2, hgtree, <<>>, "", NoRev, last_child))
        /\ UNCHANGED <<repository, changectx_dict>>

NextMessages ==
    \/ LoadRevision
    \/ LoadMergeWithoutLog
    \/ FinalizeBranches
    \/ CommitRefsUpdate

SpecMessages == Init /\ [][NextMessages]_vars

-----------------------------------------------------------------------------
(* project_tree.py: make_change_description over differences with long paths *)

MaxItems == 2

\* The paths of the description runs: with them the one-line description is
\* shorter than, as long as, and longer than the limit
Filler == "0123456789012345678901234567890123456789012345678901234567890123456789012345678"
LongPath82 == Filler \o "/aa"
LongPath83 == Filler \o "/bbb"
LongPath92 == Filler \o "/cccccccccccc"
DescPaths == {"a", LongPath82, LongPath83, LongPath92}
RenamedPairs == {<<"old", "new">>}

Range(seq) == {seq[i] : i \in 1..Len(seq)}

\* the lists of up to n different items
ItemLists(items, n) ==
    {l \in UNION {[1..k -> items] : k \in 0..n} :
        \A i, j \in 1..Len(l) : i # j => l[i] # l[j]}

\* A changeset with an empty log whose difference to the base parent has
\* these added, deleted, changed and renamed files
InitDescription ==
    /\ pc = "loading"
    /\ revisions = <<>>
    /\ branches_list = <<>>
    /\ rev_infos = <<>>
    /\ maps = <<>>
    /\ all_refs = <<>>
    /\ commits = <<>>
    /\ queued_refs = <<>>
    /\ repo_refs = {}
    /\ head_branch = None
    /\ failed_on = NoRev
    /\ exit_status = NoStatus
    /\ branches_changed = <<>>
    /\ sink_calls = <<>>
    /\ git_sha1 = {}
    /\ cfg = [unmapped_branches |-> {}, unmapped_tags |-> {}]
    /\ \E added \in ItemLists(DescPaths, MaxItems) :
       \E deleted \in ItemLists(DescPaths \ Range(added), MaxItems) :
       \E changed \in ItemLists(DescPaths \ (Range(added) \cup Range(deleted)), MaxItems) :
       \E renamed \in ItemLists(RenamedPairs, MaxItems) :
          repository = << [added |-> added, deleted |-> deleted,
                           changed |-> changed, renamed |-> renamed] >>
    /\ changectx_dict = <<>>
    /\ options = [convert_hgignore |-> FALSE]

\* the changeset is committed with the description of the difference
DescribeChange ==
    /\ pc = "loading"
    /\ commits = <<>>
    /\ Len(repository[1].added) + Len(repository[1].deleted)
          + Len(repository[1].changed) + Len(repository[1].renamed) > 0
    /\ commits' = << [tree |-> empty_tree, parents |-> <<>>,
                      log |-> DescribeChanges(repository[1].added, repository[1].deleted,
                                              repository[1].changed, repository[1].renamed),
                      cherry_picks |-> <<>>, branch |-> None, rev |-> 0,
                      rev_info |-> None] >>
    /\ UNCHANGED <<pc, revisions, branches_list, rev_infos, maps, all_refs,
                   queued_refs, repo_refs, head_branch, failed_on, cfg,
                   repository, changectx_dict, options, exit_status,
                   branches_changed, sink_calls, git_sha1>>

NextDescription == DescribeChange

SpecDescription == InitDescription /\ [][NextDescription]_vars

-----------------------------------------------------------------------------
(* The run over a complete repository: every changeset is projected with the *)
(* children list that changectx.children() gives it, and then applied        *)

MaxChangesets == 4
MaxTagged == 1
MaxUnchanged == 1

ReaderBranchNames == {"default", "feature"}
ReaderTags == {<<"v1">>, <<"v1", "v2">>}

\* the ancestors of revision rev in the changelog repo, rev included
RECURSIVE Ancestors(_, _)
Ancestors(repo, rev) ==
    IF rev = NoRev THEN {}
    ELSE {rev} \cup Ancestors(repo, repo[rev + 1].p1)
               \cup Ancestors(repo, repo[rev + 1].p2)

RepoMerges(repo) == {i \in 1..Len(repo) : repo[i].p2 # NoRev}
RepoRoots(repo) == {i \in 1..Len(repo) : repo[i].p1 = NoRev}
RepoTagged(repo) == {i \in 1..Len(repo) : repo[i].tags # <<>> \/ repo[i].source # NoRev}

RepoUnchanged(repo) ==
    {i \in 1..Len(repo) :
        repo[i].hgtree = IF repo[i].p1 = NoRev THEN empty_tree
                         ELSE repo[repo[i].p1 + 1].hgtree}

\* The parents a new changeset of the changelog repo can have: none, one, or
\* two changesets of which neither is an ancestor of the other
ParentPairs(repo) ==
    LET n == Len(repo)
    IN (IF Cardinality(RepoRoots(repo)) < MaxRoots /\ RepoTagged(repo) = {}
        THEN {<<NoRev, NoRev>>} ELSE {})
       \cup {<<p1, NoRev>> : p1 \in 0..(n - 1)}
       \cup (IF Cardinality(RepoMerges(repo)) < MaxMerges /\ RepoTagged(repo) = {}
             THEN {p \in (0..(n - 1)) \X (0..(n - 1)) :
                      /\ p[1] \notin Ancestors(repo, p[2])
                      /\ p[2] \notin Ancestors(repo, p[1])}
             ELSE {})

\* The files of a new changeset with first parent p1: the next change of the
\* cycle of NextTree, or the files of the parent
TreesAfter(repo, p1) ==
    LET parent_tree == IF p1 = NoRev THEN empty_tree ELSE repo[p1 + 1].hgtree
    IN {NextTree(parent_tree)}
       \cup (IF Cardinality(RepoUnchanged(repo)) < MaxUnchanged
             THEN {parent_tree} ELSE {})

\* The tag labels and the graft source of a new changeset, as <<tags, source>>:
\* a tag label names one changeset, a graft records its source. They are drawn
\* for changelogs of one root without merges.
Decorations(repo, p) ==
    {<< <<>>, NoRev >>}
    \cup (IF /\ Cardinality(RepoTagged(repo)) < MaxTagged
             /\ RepoMerges(repo) = {} /\ p[2] = NoRev
             /\ Cardinality(RepoRoots(repo)) <= (IF p[1] = NoRev THEN 0 ELSE 1)
          THEN {<<tags, NoRev>> : tags \in ReaderTags}
               \cup (IF p[1] # NoRev
                     THEN {<< <<>>, source >> : source \in {UnknownRev, 0}}
                     ELSE {})
          ELSE {})

\* The changesets that can be committed on top of the changelog repo; the
\* revision number of a changeset is its place in the changelog
Commits(repo) ==
    UNION { { [branch |-> name, p1 |-> p[1], p2 |-> p[2], hgtree |-> hgtree,
               tags |-> d[1], log |-> "msg", source |-> d[2]] :
                 name \in ReaderBranchNames, hgtree \in TreesAfter(repo, p[1]),
                 d \in Decorations(repo, p) } : p \in ParentPairs(repo) }

\* the changelogs of n changesets
RECURSIVE Repositories(_)
Repositories(n) ==
    IF n = 0 THEN {<<>>}
    ELSE UNION { {Append(repo, c) : c \in Commits(repo)} : repo \in Repositories(n - 1) }

\* changectx.children() of revision rev, by revision number
Children(repo, rev) ==
    {k \in 0..(Len(repo) - 1) : repo[k + 1].p1 = rev \/ repo[k + 1].p2 = rev}

\* children.remove(rev_hex) done for the first parent also when the changeset
\* continues it
RemoveFromFirstParent_every_child(dict, revs, c, rev) ==
    IF c.p1 # NoRev
    THEN [dict EXCEPT ![c.p1 + 1].children = @ \ {rev}]
    ELSE dict

\* parent_revision.children.remove(rev_hex) for the first parent, which the
\* branches that emit an add node do
RemoveFromFirstParent(dict, revs, c, rev) ==
    IF c.p1 # NoRev /\ ~ContinuesParent(revs, c.branch, c.p1)
    THEN [dict EXCEPT ![c.p1 + 1].children = @ \ {rev}]
    ELSE dict

\* parent_revision.tree = None done for every parent that is continued
Release_every_continued(dict, revs, c) ==
    IF ContinuesParent(revs, c.branch, c.p1)
    THEN [dict EXCEPT ![c.p1 + 1].tree = "None"]
    ELSE dict

\* the changeset continues its first parent: parent_revision.tree = None when
\* it is the one entry left in the children list of the parent
Release(dict, revs, c) ==
    IF ContinuesParent(revs, c.branch, c.p1)
       /\ Cardinality(dict[c.p1 + 1].children) = 1
    THEN [dict EXCEPT ![c.p1 + 1].tree = "None"]
    ELSE dict

\* parent_revision.children.remove(rev_hex) for the additional parent
RemoveFromParents(dict, c, rev) ==
    IF c.p2 # NoRev THEN [dict EXCEPT ![c.p2 + 1].children = @ \ {rev}] ELSE dict

\* len(parent_revision.children) == 0 for the additional parent
EndsSubBranch(dict, c) ==
    c.p2 # NoRev /\ dict[c.p2 + 1].children = {}

\* the reader revision of changeset c entered into changectx_dict
Projected(dict, repo, revs, c, rev, last_child) ==
    Append(dict,
           [children |-> Children(repo, rev), tree |-> "unset",
            nodes |-> hg_changectx_revision(revs, c.branch, c.p1, c.p2, c.hgtree,
                                            c.tags, c.source, last_child)])

\* hg_changectx_revision.__init__ for changeset c of number rev, and its
\* application by load
ReadChangeset(dict, c, rev) ==
    /\ changectx_dict' = Projected(dict, repository, revisions, c, rev,
                                   EndsSubBranch(dict, c))
    /\ Applied(Yielded(c.branch, c.p1, c.p2, c.hgtree, c.tags, c.log, c.source,
                       EndsSubBranch(dict, c)))

\* one iteration of the loop of load over the loop of read_revisions
ReadRevision ==
    /\ pc = "loading"
    /\ Len(changectx_dict) < Len(repository)
    /\ ReadChangeset(RemoveFromParents(
                        Release(RemoveFromFirstParent(changectx_dict, revisions,
                                                      repository[Len(changectx_dict) + 1],
                                                      Len(changectx_dict)),
                                revisions, repository[Len(changectx_dict) + 1]),
                        repository[Len(changectx_dict) + 1], Len(changectx_dict)),
                     repository[Len(changectx_dict) + 1], Len(changectx_dict))
    /\ UNCHANGED repository

\* the changelog has been read to its end: finalize_branches
ReaderFinalizeBranches ==
    /\ Len(changectx_dict) = Len(repository)
    /\ FinalizeBranches

NextReader ==
    \/ ReadRevision
    \/ ReaderFinalizeBranches
    \/ CommitRefsUpdate

InitReader ==
    /\ pc = "loading"
    /\ revisions = <<>>
    /\ branches_list = <<>>
    /\ rev_infos = <<>>
    /\ maps = <<>>
    /\ all_refs = <<>>
    /\ commits = <<>>
    /\ queued_refs = <<>>
    /\ repo_refs = {}
    /\ head_branch = None
    /\ failed_on = NoRev
    /\ exit_status = NoStatus
    /\ branches_changed = <<>>
    /\ sink_calls = <<>>
    /\ git_sha1 = {}
    /\ cfg = [unmapped_branches |-> {}, unmapped_tags |-> {}]
    /\ repository \in UNION {Repositories(n) : n \in 1..MaxChangesets}
    /\ changectx_dict = <<>>
    /\ options = [convert_hgignore |-> FALSE]

SpecReader == InitReader /\ [][NextReader]_vars

-----------------------------------------------------------------------------
(* hg_reader.py: the translation of .hgignore into .gitignore. A byte string *)
(* is a sequence of one-character strings.                                    *)

StartsWith(s, prefix) == IsPrefix(prefix, s)

EndsWith(s, suffix) ==
    Len(suffix) <= Len(s) /\ SubSeq(s, Len(s) - Len(suffix) + 1, Len(s)) = suffix

\* s[n:]
From(s, n) == SubSeq(s, n + 1, Len(s))

\* bytes.find(ch) >= 0
Has(s, ch) == \E i \in 1..Len(s) : s[i] = ch

\* the text has two asterisks in a row
HasTwoStars(s) == \E i \in 1..(Len(s) - 1) : s[i] = "*" /\ s[i + 1] = "*"

\* the characters bytes.strip() removes, which are those \s matches
Whitespace == {" ", "\t", "\n", "\r"}

RECURSIVE LStrip(_)
LStrip(s) == IF s # <<>> /\ s[1] \in Whitespace THEN LStrip(Tail(s)) ELSE s

RECURSIVE RStrip(_)
RStrip(s) ==
    IF s # <<>> /\ s[Len(s)] \in Whitespace THEN RStrip(SubSeq(s, 1, Len(s) - 1)) ELSE s

\* bytes.strip()
Strip(s) == RStrip(LStrip(s))

\* b'%d' % n
RECURSIVE Decimal(_)
Decimal(n) ==
    IF n < 10 THEN <<<<"0", "1", "2", "3", "4", "5", "6", "7", "8", "9">>[n + 1]>>
    ELSE Decimal(n \div 10) \o <<<<"0", "1", "2", "3", "4", "5", "6", "7", "8", "9">>[(n % 10) + 1]>>

\* bytes.splitlines(): the lines of a text, the line ends dropped
RECURSIVE splitlines(_, _)
splitlines(data, line) ==
    IF data = <<>> THEN (IF line = <<>> THEN <<>> ELSE <<line>>)
    ELSE IF data[1] = "\r" /\ Len(data) >= 2 /\ data[2] = "\n"
         THEN <<line>> \o splitlines(From(data, 2), <<>>)
    ELSE IF data[1] \in {"\n", "\r"}
         THEN <<line>> \o splitlines(Tail(data), <<>>)
    ELSE splitlines(Tail(data), Append(line, data[1]))

\* b'\n'.join(lines + [b'']): every line is ended by a newline
RECURSIVE JoinLines(_)
JoinLines(lines) ==
    IF lines = <<>> THEN <<>>
    ELSE Head(lines) \o <<"\n">> \o JoinLines(Tail(lines))

\* the position of the last character that is ch, 0 when there is none
LastIndex(s, ch) ==
    IF Has(s, ch) THEN CHOOSE i \in 1..Len(s) :
                            s[i] = ch /\ \A j \in (i + 1)..Len(s) : s[j] # ch
    ELSE 0

\* the match of (.*?/)((?:[^/*]|(?<!\*)\*)+)/\*+ against the whole glob: the
\* glob ends in a slash and one or more asterisks, before that slash comes a
\* path component without two asterisks in a row, and before the component a
\* prefix that ends in a slash; prefix_end is where the prefix ends.
TrailingStars(glob, last_slash) ==
    /\ last_slash > 0
    /\ last_slash < Len(glob)
    /\ \A i \in (last_slash + 1)..Len(glob) : glob[i] = "*"

SimplifyMatch(glob, last_slash, prefix_end) ==
    /\ TrailingStars(glob, last_slash)
    /\ prefix_end > 0
    /\ prefix_end + 1 < last_slash
    /\ ~HasTwoStars(SubSeq(glob, prefix_end + 1, last_slash - 1))

\* the first substitution of simplify_gitignore_glob, for a glob whose last
\* slash is at last_slash and the slash before it at prefix_end
DropTrailingStars(glob, last_slash, prefix_end) ==
    IF SimplifyMatch(glob, last_slash, prefix_end)
    THEN IF SubSeq(glob, 1, prefix_end) = <<"*", "*", "/">>
         THEN SubSeq(glob, prefix_end + 1, last_slash)
         ELSE SubSeq(glob, 1, last_slash)
    ELSE glob

\* the match of \*\*([^/*][^/]*/?) against the whole glob
SingleComponentWithTwoStars(glob) ==
    /\ Len(glob) >= 3
    /\ StartsWith(glob, <<"*", "*">>)
    /\ glob[3] \notin {"/", "*"}
    /\ ~Has(SubSeq(glob, 3, Len(glob) - 1), "/")

\* the second substitution of simplify_gitignore_glob
DropLeadingStar(glob) ==
    IF SingleComponentWithTwoStars(glob) THEN Tail(glob) ELSE glob

\* the slash of glob before position last_slash
SlashBefore(glob, last_slash) ==
    IF last_slash = 0 THEN 0 ELSE LastIndex(SubSeq(glob, 1, last_slash - 1), "/")

\* glob.removeprefix(b'**/') of a glob that starts with **/**
DropDoubledPrefix(glob) ==
    IF StartsWith(glob, <<"*", "*", "/", "*", "*">>) THEN From(glob, 3) ELSE glob

SimplifyTail(glob) ==
    DropTrailingStars(glob, LastIndex(glob, "/"),
                      SlashBefore(glob, LastIndex(glob, "/")))

\* simplify_gitignore_glob that returns the glob as it was given
simplify_gitignore_glob_kept(glob) == glob

simplify_gitignore_glob(glob) ==
    DropLeadingStar(SimplifyTail(DropDoubledPrefix(glob)))

\* A token of tokenize_regexp: kind "text" for bytes that go into the glob,
\* "|", "?", "(" and ")" for the TOKEN_ constants, "error" for a raised
\* re.error, whose message is then the text. pos is the position yielded.
Token(kind, text, pos) == [kind |-> kind, text |-> text, pos |-> pos]

\* b"Unsupported token: '%s' at position %d" % (token, start)
UnsupportedToken(token, start) ==
    <<"U", "n", "s", "u", "p", "p", "o", "r", "t", "e", "d", " ", "t", "o", "k", "e", "n", ":", " ", "'">> \o token \o <<"'", " ", "a", "t", " ", "p", "o", "s", "i", "t", "i", "o", "n", " ">> \o Decimal(start)

\* The first alternative of tokenizer_re that matches at position i (counted
\* from 1), as the matched text; the empty text when none matches
TokenAt(regexp, i) ==
    LET c == regexp[i]
        rest == Len(regexp) - i
    IN IF c \in {"^", "$"} THEN <<c>>
       ELSE IF c = "\\"
            THEN (IF rest >= 1 /\ regexp[i + 1] # "\n" THEN <<c, regexp[i + 1]>> ELSE <<c>>)
       ELSE IF c = "."
            THEN (IF rest >= 1 /\ regexp[i + 1] = "*" THEN <<".", "*">> ELSE <<c>>)
       ELSE IF c = "["
            THEN (IF rest >= 4 /\ SubSeq(regexp, i, i + 4) = <<"[", "^", "/", "]", "*">>
                  THEN <<"[", "^", "/", "]", "*">> ELSE <<c>>)
       ELSE IF c = "("
            THEN (IF rest >= 1 /\ regexp[i + 1] = ":" THEN <<"(", ":">> ELSE <<c>>)
       ELSE IF c \in {"]", "|", ")", "?", "*", "+", "{", "}"} THEN <<c>>
       ELSE <<>>

\* the token yielded for the text m matched at position start (counted from 0)
Yield(m, start) ==
    IF m = <<"\\", ".">> THEN Token("text", <<".">>, start)
    ELSE IF m = <<".", "*">> THEN Token("text", <<"*", "*">>, start)
    ELSE IF m = <<".">> THEN Token("text", <<"?">>, start)
    ELSE IF m = <<"[", "^", "/", "]", "*">> THEN Token("text", <<"*">>, start)
    ELSE IF m \in {<<"?">>, <<"|">>, <<"(">>, <<")">>} THEN Token(m[1], m, start)
    ELSE IF m \in {<<"\\">>, <<"(", ":">>, <<"*">>, <<"+">>, <<"{">>, <<"}">>, <<"[">>, <<"]">>}
         THEN Token("error", UnsupportedToken(m, start), start)
    ELSE Token("text", m, start)

\* the text between two matches is yielded with the position of the match
\* that follows it
Between(regexp, prev_end, i) ==
    IF prev_end # i - 1
    THEN << Token("text", SubSeq(regexp, prev_end + 1, i - 1), i - 1) >> ELSE <<>>

\* tokenize_regexp from position i on, prev_end being the end of the last
\* match: the tokens the generator yields, the last one the error if it raises
RECURSIVE tokenize_regexp(_, _, _)
tokenize_regexp(regexp, i, prev_end) ==
    IF i > Len(regexp)
    THEN (IF prev_end < Len(regexp)
          THEN << Token("text", From(regexp, prev_end), prev_end) >> ELSE <<>>)
    ELSE IF TokenAt(regexp, i) = <<>> THEN tokenize_regexp(regexp, i + 1, prev_end)
    ELSE IF Yield(TokenAt(regexp, i), i - 1).kind = "error"
         THEN Between(regexp, prev_end, i) \o << Yield(TokenAt(regexp, i), i - 1) >>
    ELSE Between(regexp, prev_end, i) \o << Yield(TokenAt(regexp, i), i - 1) >>
         \o tokenize_regexp(regexp, i + Len(TokenAt(regexp, i)),
                            i - 1 + Len(TokenAt(regexp, i)))

\* An item of a glob list of process_regexp_tokens: bytes, or a list of
\* alternatives
Item(text) == [islist |-> FALSE, alts |-> <<text>>]
ListItem(alts) == [islist |-> TRUE, alts |-> alts]

\* The outcome of a conversion: the globs and the token not yet consumed, or
\* the message of the re.error raised, or the TypeError raised
Converted(globs, next) == [globs |-> globs, next |-> next, error |-> <<>>, raised |-> FALSE]
ReError(msg) == [globs |-> <<>>, next |-> 0, error |-> msg, raised |-> FALSE]
TypeErrorRaised == [globs |-> <<>>, next |-> 0, error |-> <<>>, raised |-> TRUE]

\* [a + b for a in glob_sublist for b in glob_item]
RECURSIVE Product(_, _, _, _)
Product(glob_sublist, glob_item, a, b) ==
    IF a > Len(glob_sublist) THEN <<>>
    ELSE IF b > Len(glob_item) THEN Product(glob_sublist, glob_item, a + 1, 1)
    ELSE << glob_sublist[a] \o glob_item[b] >> \o Product(glob_sublist, glob_item, a, b + 1)

\* the loop over the items of one glob list
RECURSIVE ExpandItems(_, _, _)
ExpandItems(glob_list, k, glob_sublist) ==
    IF k > Len(glob_list) THEN glob_sublist
    ELSE ExpandItems(glob_list, k + 1, Product(glob_sublist, glob_list[k].alts, 1, 1))

\* the loop that builds expanded_glob_list
RECURSIVE Expand(_, _)
Expand(glob_list_list, k) ==
    IF k > Len(glob_list_list) THEN <<>>
    ELSE ExpandItems(glob_list_list[k], 1, << <<>> >>) \o Expand(glob_list_list, k + 1)

\* next(tokens_iter) raises: the token that would be yielded is an error
FetchRaises(tokens, j) == j <= Len(tokens) /\ tokens[j].kind = "error"

\* glob_list_list[-1] replaced
WithLast(glob_list_list, glob_list) ==
    [glob_list_list EXCEPT ![Len(glob_list_list)] = glob_list]

\* glob_list_list[-1][-1] += token
AddText(glob_list, text) ==
    [glob_list EXCEPT ![Len(glob_list)].alts = << @[1] \o text >>]

\* the last item becomes the choice between itself and itself without its
\* last byte, and an empty item follows
MakeOptional(glob_list, last) ==
    [glob_list EXCEPT ![Len(glob_list)] = ListItem(<<last, SubSeq(last, 1, Len(last) - 1)>>)]
    \o << Item(<<>>) >>

\* the list before the last item gets the empty alternative
AddEmpty(glob_list) ==
    IF \E i \in 1..Len(glob_list[Len(glob_list) - 1].alts) :
            glob_list[Len(glob_list) - 1].alts[i] = <<>>
    THEN glob_list
    ELSE [glob_list EXCEPT ![Len(glob_list) - 1].alts = Append(@, <<>>)]

RECURSIVE process_regexp_tokens(_, _, _)
RECURSIVE AfterParenthesis(_, _, _, _)

\* TOKEN_QUESTION_MARK. The message of the re.error of the last branch is
\* formatted from b"...%s..." with the str '?', which raises TypeError
QuestionMark(tokens, j, glob_list_list, glob_list) ==
    IF glob_list[Len(glob_list)].alts[1] # <<>>
    THEN process_regexp_tokens(tokens, j + 1,
            WithLast(glob_list_list,
                     MakeOptional(glob_list, glob_list[Len(glob_list)].alts[1])))
    ELSE IF Len(glob_list) >= 2 /\ glob_list[Len(glob_list) - 1].islist
    THEN process_regexp_tokens(tokens, j + 1,
                               WithLast(glob_list_list, AddEmpty(glob_list)))
    ELSE TypeErrorRaised

\* process_regexp_tokens, next_token being tokens[j] (None after the last)
process_regexp_tokens(tokens, j, glob_list_list) ==
    IF j > Len(tokens) \/ tokens[j].kind = ")"
    THEN Converted(Expand(glob_list_list, 1), j)
    ELSE IF FetchRaises(tokens, j + 1) THEN ReError(tokens[j + 1].text)
    ELSE IF tokens[j].kind = "?"
         THEN QuestionMark(tokens, j, glob_list_list,
                           glob_list_list[Len(glob_list_list)])
    ELSE IF tokens[j].kind = "|"
         THEN process_regexp_tokens(tokens, j + 1,
                                    Append(glob_list_list, << Item(<<>>) >>))
    ELSE IF tokens[j].kind = "("
         THEN AfterParenthesis(tokens, glob_list_list,
                               process_regexp_tokens(tokens, j + 1, << << Item(<<>>) >> >>),
                               tokens[j].pos)
    ELSE process_regexp_tokens(tokens, j + 1,
            WithLast(glob_list_list,
                     AddText(glob_list_list[Len(glob_list_list)], tokens[j].text)))

\* TOKEN_LEFT_PAREN after the nested call returned
AfterParenthesis(tokens, glob_list_list, nested, parenthesis_pos) ==
    IF nested.error # <<>> \/ nested.raised THEN nested
    ELSE IF nested.next > Len(tokens)
         THEN ReError(<<"P", "a", "r", "e", "n", "t", "h", "e", "s", "i", "s", " ", "'", "(", "'", " ", "a", "t", " ", "p", "o", "s", "i", "t", "i", "o", "n", " ">> \o Decimal(parenthesis_pos)
                      \o <<" ", "n", "o", "t", " ", "c", "l", "o", "s", "e", "d">>)
    ELSE IF FetchRaises(tokens, nested.next + 1) THEN ReError(tokens[nested.next + 1].text)
    ELSE process_regexp_tokens(tokens, nested.next + 1,
            WithLast(glob_list_list,
                     glob_list_list[Len(glob_list_list)]
                        \o << ListItem(nested.globs), Item(<<>>) >>))

\* the START_OF_LINE step of regexp_to_glob
Rooted(raw_glob) ==
    IF StartsWith(raw_glob, <<"^">>) THEN <<"/">> \o Tail(raw_glob)
    ELSE IF ~StartsWith(raw_glob, <<"*", "*">>) THEN <<"*", "*">> \o raw_glob
    ELSE raw_glob

\* the END_OF_LINE step of regexp_to_glob
Ended(glob) ==
    IF EndsWith(glob, <<"$">>) THEN SubSeq(glob, 1, Len(glob) - 1)
    ELSE IF ~EndsWith(glob, <<"*", "*">>) THEN glob \o <<"*", "*">>
    ELSE glob

\* the loop over raw_glob_list, glob_list being what was collected before k
RECURSIVE Anchored(_, _, _)
Anchored(raw_glob_list, k, glob_list) ==
    IF k > Len(raw_glob_list) THEN Converted(glob_list, 0)
    ELSE IF Has(Rooted(raw_glob_list[k]), "^")
         THEN ReError(<<"M", "i", "s", "p", "l", "a", "c", "e", "d", " ", "s", "t", "a", "r", "t", " ", "o", "f", " ", "l", "i", "n", "e", " ", "a", "n", "c", "h", "o", "r", " ", "'", "^", "'">>)
    ELSE IF Has(Ended(Rooted(raw_glob_list[k])), "$")
         THEN ReError(<<"M", "i", "s", "p", "l", "a", "c", "e", "d", " ", "e", "n", "d", " ", "o", "f", " ", "l", "i", "n", "e", " ", "a", "n", "c", "h", "o", "r", " ", "'", "$", "'">>)
    ELSE Anchored(raw_glob_list, k + 1,
                  IF Ended(Rooted(raw_glob_list[k])) # <<>>
                  THEN Append(glob_list, Ended(Rooted(raw_glob_list[k])))
                  ELSE glob_list)

\* regexp_to_glob after the tokens were processed
GlobsOf(tokens, processed) ==
    IF processed.error # <<>> \/ processed.raised THEN processed
    ELSE IF processed.next <= Len(tokens)
         THEN ReError(<<"U", "n", "m", "a", "t", "c", "h", "e", "d", " ", "r", "i", "g", "h", "t", " ", "p", "a", "r", "e", "n", "t", "h", "e", "s", "i", "s", " ", "'", ")", "'", " ", "a", "t", " ", "p", "o", "s", "i", "t", "i", "o", "n", " ">>
                      \o Decimal(tokens[processed.next].pos))
    ELSE Anchored(processed.globs, 1, <<>>)

\* regexp_to_glob over the tokens of the regexp
ProcessedTokens(tokens) ==
    IF FetchRaises(tokens, 1) THEN ReError(tokens[1].text)
    ELSE GlobsOf(tokens, process_regexp_tokens(tokens, 1, << << Item(<<>>) >> >>))

regexp_to_glob(regexp) == ProcessedTokens(tokenize_regexp(regexp, 1, 0))

\* The match of re1, ((?:[^\\#]|\\.)*)(\s*#.*)?, against the whole line: the
\* position after group 1, which takes escaped characters in pairs and ends
\* before the first # that is not escaped
RECURSIVE GlobEnd(_, _)
GlobEnd(line, i) ==
    IF i > Len(line) THEN i
    ELSE IF line[i] = "\\" THEN (IF i < Len(line) THEN GlobEnd(line, i + 2) ELSE i)
    ELSE IF line[i] = "#" THEN i
    ELSE GlobEnd(line, i + 1)

\* re1 does not match a line that ends in half an escape
Re1Matches(line) == GlobEnd(line, 1) > Len(line) \/ line[GlobEnd(line, 1)] = "#"

\* the keywords of re2 in the order of its alternatives
Keywords == << <<"g", "l", "o", "b">>, <<"r", "o", "o", "t", "g", "l", "o", "b">>, <<"r", "e">>, <<"r", "e", "g", "e", "x", "p">>, <<"i", "n", "c", "l", "u", "d", "e">>, <<"s", "u", "b", "i", "n", "c", "l", "u", "d", "e">> >>

\* m2[1] of re2.match(glob), the empty text when re2 does not match
Keyword(glob) ==
    IF \E i \in 1..Len(Keywords) : StartsWith(glob, Keywords[i] \o <<":">>)
    THEN Keywords[CHOOSE i \in 1..Len(Keywords) : StartsWith(glob, Keywords[i] \o <<":">>)]
    ELSE <<>>

\* the match of (?!\*\*|/)(?:(?!\*\*)[^/])*/? against the whole glob
SingleComponent(glob) ==
    /\ ~StartsWith(glob, <<"/">>)
    /\ ~HasTwoStars(glob)
    /\ ~Has(SubSeq(glob, 1, Len(glob) - 1), "/")

\* the match of (?!\*\*|/)(?:[^/])+/? against the whole glob
SingleRootComponent(glob) ==
    /\ glob # <<>>
    /\ ~StartsWith(glob, <<"/">>)
    /\ ~StartsWith(glob, <<"*", "*">>)
    /\ ~Has(SubSeq(glob, 1, Len(glob) - 1), "/")

\* the lines a pattern adds to the output and whether TypeError is raised
Lines(lines) == [lines |-> lines, raised |-> FALSE]

\* the end of the loop body: the glob is simplified, .git/ is dropped
Simplified(glob, tail) ==
    IF simplify_gitignore_glob(glob) # <<".", "g", "i", "t", "/">>
    THEN Lines(<< simplify_gitignore_glob(glob) \o tail >>) ELSE Lines(<<>>)

RECURSIVE SimplifyAll(_, _)
SimplifyAll(glob_list, k) ==
    IF k > Len(glob_list) THEN <<>>
    ELSE << simplify_gitignore_glob(glob_list[k]) >> \o SimplifyAll(glob_list, k + 1)

\* the branch of the syntaxes re and regexp
RegexpLines(line, glob, tail, converted) ==
    IF converted.raised THEN [lines |-> <<>>, raised |-> TRUE]
    ELSE IF converted.error # <<>>
    THEN Lines(<< <<"#", " ", "U", "n", "s", "u", "p", "p", "o", "r", "t", "e", "d", " ", "r", "e", "g", "u", "l", "a", "r", " ", "e", "x", "p", "r", "e", "s", "s", "i", "o", "n", ":">>,
                  <<"#", " ">> \o converted.error,
                  <<"#", " ">> \o line >>)
    ELSE Lines(<< <<"#", " ", "r", "e", "g", "e", "x", "p", ":">> \o glob \o tail >> \o SimplifyAll(converted.globs, 1))

\* the body of the loop of hgignore_to_gitignore for a pattern of the syntax
\* line_syntax
PatternLines(line, glob, tail, line_syntax) ==
    IF line_syntax = <<"g", "l", "o", "b">>
    THEN IF Has(glob, "{") \/ Has(glob, "}")
         THEN Lines(<< <<"#", " ", "U", "n", "s", "u", "p", "p", "o", "r", "t", "e", "d", " ", "g", "l", "o", "b", " ", "s", "p", "e", "c", "i", "f", "i", "c", "a", "t", "i", "o", "n", ":">>, <<"#", " ">> \o line >>)
         ELSE Simplified(IF SingleComponent(glob) THEN glob ELSE <<"*", "*", "/">> \o glob, tail)
    ELSE IF line_syntax = <<"r", "o", "o", "t", "g", "l", "o", "b">>
    THEN Simplified(IF SingleRootComponent(glob) THEN <<"/">> \o glob ELSE glob, tail)
    ELSE IF line_syntax \in {<<"r", "e">>, <<"r", "e", "g", "e", "x", "p">>}
    THEN RegexpLines(line, glob, tail, regexp_to_glob(glob))
    ELSE Lines(<< <<"#", " ", "U", "n", "r", "e", "c", "o", "g", "n", "i", "z", "e", "d", " ", "i", "g", "n", "o", "r", "e", " ", "s", "p", "e", "c", "i", "f", "i", "c", "a", "t", "i", "o", "n", ":">>, <<"#", " ">> \o line >>)

\* a line with a pattern: m1[1] is glob and m1[2], or the empty text, is tail
LineOfPattern(line, glob, tail, syntax) ==
    IF Keyword(glob) \in {<<"i", "n", "c", "l", "u", "d", "e">>,
                          <<"s", "u", "b", "i", "n", "c", "l", "u", "d", "e">>}
    THEN Lines(<< <<"#", " ">> \o line >>)
    ELSE IF Keyword(glob) # <<>>
    THEN PatternLines(line, From(glob, Len(Keyword(glob)) + 1), tail, Keyword(glob))
    ELSE PatternLines(line, glob, tail, syntax)

\* the loop over data.splitlines(), from line k on
RECURSIVE TranslateLines(_, _, _, _)
TranslateLines(input, k, syntax, lines) ==
    IF k > Len(input) THEN Lines(lines)
    ELSE IF ~Re1Matches(input[k]) \/ GlobEnd(input[k], 1) = 1
    THEN TranslateLines(input, k + 1, syntax, Append(lines, input[k]))
    ELSE IF StartsWith(input[k], <<"s", "y", "n", "t", "a", "x", ":">>)
    THEN TranslateLines(input, k + 1,
                        Strip(SubSeq(input[k], 8, GlobEnd(input[k], 1) - 1)), lines)
    ELSE IF LineOfPattern(input[k], SubSeq(input[k], 1, GlobEnd(input[k], 1) - 1),
                          From(input[k], GlobEnd(input[k], 1) - 1), syntax).raised
    THEN [lines |-> <<>>, raised |-> TRUE]
    ELSE TranslateLines(input, k + 1, syntax,
            lines \o LineOfPattern(input[k],
                                   SubSeq(input[k], 1, GlobEnd(input[k], 1) - 1),
                                   From(input[k], GlobEnd(input[k], 1) - 1),
                                   syntax).lines)

\* hgignore_to_gitignore raises TypeError
TranslationRaises(data) ==
    TranslateLines(splitlines(data, <<>>), 1, <<"r", "e", "g", "e", "x", "p">>, <<>>).raised

hgignore_to_gitignore(data) ==
    JoinLines(TranslateLines(splitlines(data, <<>>), 1, <<"r", "e", "g", "e", "x", "p">>, <<>>).lines)

-----------------------------------------------------------------------------
(* hg_reader.py: the file nodes of a changeset. A path is the sequence of    *)
(* its components; a manifest maps the paths to file contexts.               *)

NoFile == [data |-> <<>>, islink |-> FALSE, isexec |-> FALSE, absent |-> TRUE]
FileCtx(data, islink, isexec) ==
    [data |-> data, islink |-> islink, isexec |-> isexec, absent |-> FALSE]

NoKind == "None"        \* the kind None of a node
NoData == <<"None">>    \* the data None of a node

\* path in changectx
InManifest(path, manifest) == path \in DOMAIN manifest /\ ~manifest[path].absent

\* path == b'.hgignore' or path.endswith(b'/.hgignore')
IsHgIgnore(path) == path[Len(path)] = ".hgignore"

\* path == b'.gitignore' or path.endswith(b'/.gitignore')
IsGitIgnore(path) == path[Len(path)] = ".gitignore"

\* path.removesuffix(b'.hgignore') + b'.gitignore', and the other way around
Sibling(path, name) == SubSeq(path, 1, Len(path) - 1) \o <<name>>

\* add_revision_node for a file; props None and props {} are both the empty set
FileNode(action, kind, path, data, props) ==
    [action |-> action, kind |-> kind, path |-> path, data |-> data, props |-> props]

change_file(path, fctx, action) ==
    IF fctx.islink
    THEN << FileNode(action, "file", path, fctx.data, {"symlink"}) >>
    ELSE IF options.convert_hgignore /\ IsHgIgnore(path)
    THEN << FileNode("change", "file", Sibling(path, ".gitignore"),
                     hgignore_to_gitignore(fctx.data), {}) >>
    ELSE IF fctx.isexec
    THEN << FileNode(action, "file", path, fctx.data, {"executable"}) >>
    ELSE << FileNode(action, "file", path, fctx.data, {}) >>

\* change_file raises: the translation of the file does
ChangeFileRaises(path, fctx) ==
    ~fctx.islink /\ options.convert_hgignore /\ IsHgIgnore(path)
    /\ TranslationRaises(fctx.data)

create_file(path, fctx) == change_file(path, fctx, "add")

\* delete_file that emits nothing for .gitignore when .hgignore is deleted and
\* no tree has a .gitignore
delete_file_skip(path, changectx, parent_changectx) ==
    IF ~options.convert_hgignore
    THEN << FileNode("delete", NoKind, path, NoData, {}) >>
    ELSE IF IsHgIgnore(path)
    THEN IF InManifest(Sibling(path, ".gitignore"), changectx)
         THEN change_file(Sibling(path, ".gitignore"),
                          changectx[Sibling(path, ".gitignore")], "change")
         ELSE <<>>
    ELSE IF IsGitIgnore(path) /\ InManifest(Sibling(path, ".hgignore"), changectx)
    THEN << FileNode("change", "file", path,
                     hgignore_to_gitignore(changectx[Sibling(path, ".hgignore")].data),
                     {}) >>
    ELSE << FileNode("delete", NoKind, path, NoData, {}) >>

\* delete_file that deletes .gitignore also when .hgignore is in the tree
delete_file_no_regenerate(path, changectx, parent_changectx) ==
    IF ~options.convert_hgignore
    THEN << FileNode("delete", NoKind, path, NoData, {}) >>
    ELSE IF IsHgIgnore(path)
    THEN IF InManifest(Sibling(path, ".gitignore"), changectx)
         THEN change_file(Sibling(path, ".gitignore"),
                          changectx[Sibling(path, ".gitignore")], "change")
         ELSE IF InManifest(Sibling(path, ".gitignore"), parent_changectx)
         THEN <<>>
         ELSE << FileNode("delete", NoKind, Sibling(path, ".gitignore"), NoData, {}) >>
    ELSE << FileNode("delete", NoKind, path, NoData, {}) >>

delete_file(path, changectx, parent_changectx) ==
    IF ~options.convert_hgignore
    THEN << FileNode("delete", NoKind, path, NoData, {}) >>
    ELSE IF IsHgIgnore(path)
    THEN IF InManifest(Sibling(path, ".gitignore"), changectx)
         THEN change_file(Sibling(path, ".gitignore"),
                          changectx[Sibling(path, ".gitignore")], "change")
         ELSE IF InManifest(Sibling(path, ".gitignore"), parent_changectx)
         THEN <<>>
         ELSE << FileNode("delete", NoKind, Sibling(path, ".gitignore"), NoData, {}) >>
    ELSE IF IsGitIgnore(path) /\ InManifest(Sibling(path, ".hgignore"), changectx)
    THEN << FileNode("change", "file", path,
                     hgignore_to_gitignore(changectx[Sibling(path, ".hgignore")].data),
                     {}) >>
    ELSE << FileNode("delete", NoKind, path, NoData, {}) >>

\* delete_file raises: the translation of the sibling .hgignore does
DeleteFileRaises(path, changectx) ==
    /\ options.convert_hgignore
    /\ ~IsHgIgnore(path)
    /\ IsGitIgnore(path)
    /\ InManifest(Sibling(path, ".hgignore"), changectx)
    /\ TranslationRaises(changectx[Sibling(path, ".hgignore")].data)

\* the paths of the manifests in byte order, the order of changectx.files()
\* and of the comparison of two trees
FilePaths ==
    << <<".gitignore">>, <<".hgignore">>, <<"sub", ".gitignore">>, <<"sub", ".hgignore">> >>

\* the manifest of the parent None
NoManifest == [i \in {} |-> NoFile]

\* changectx.files(): the paths that differ from the first parent
Touched(path, changectx, parent_changectx) ==
    IF InManifest(path, parent_changectx)
    THEN ~InManifest(path, changectx) \/ changectx[path] # parent_changectx[path]
    ELSE InManifest(path, changectx)

\* the body of the loop of process_file_list
FileListNodes(path, changectx, parent_changectx) ==
    IF InManifest(path, changectx)
    THEN IF InManifest(path, parent_changectx)
         THEN change_file(path, changectx[path], "change")
         ELSE create_file(path, changectx[path])
    ELSE delete_file(path, changectx, parent_changectx)

RECURSIVE process_file_list(_, _, _)
process_file_list(changectx, parent_changectx, i) ==
    IF i > Len(FilePaths) THEN <<>>
    ELSE (IF Touched(FilePaths[i], changectx, parent_changectx)
          THEN FileListNodes(FilePaths[i], changectx, parent_changectx) ELSE <<>>)
         \o process_file_list(changectx, parent_changectx, i + 1)

\* the body of the loop of compare_change_contexts for a path that differs
CompareNodes(path, ctx1, ctx2) ==
    IF ~InManifest(path, ctx1) THEN create_file(path, ctx2[path])
    ELSE IF ~InManifest(path, ctx2) THEN delete_file(path, ctx2, ctx1)
    ELSE change_file(path, ctx2[path], "change")

RECURSIVE compare_change_contexts(_, _, _)
compare_change_contexts(ctx1, ctx2, i) ==
    IF i > Len(FilePaths) THEN <<>>
    ELSE (IF Touched(FilePaths[i], ctx2, ctx1)
          THEN CompareNodes(FilePaths[i], ctx1, ctx2) ELSE <<>>)
         \o compare_change_contexts(ctx1, ctx2, i + 1)

\* a file call of the changeset raises
FilesRaise(changectx, parent_changectx) ==
    \E i \in 1..Len(FilePaths) :
        /\ Touched(FilePaths[i], changectx, parent_changectx)
        /\ IF InManifest(FilePaths[i], changectx)
           THEN ChangeFileRaises(FilePaths[i], changectx[FilePaths[i]])
           ELSE DeleteFileRaises(FilePaths[i], changectx)

\* the file nodes of hg_changectx_revision.__init__
FileNodesOf(ctx, parent_changectx) ==
    IF ctx.merge THEN compare_change_contexts(parent_changectx, ctx.manifest, 1)
    ELSE process_file_list(ctx.manifest, parent_changectx, 1)

\* the manifest of the first parent of changeset number rev: the changesets
\* of these changelogs form one line
ParentManifest(rev) == IF rev = 0 THEN NoManifest ELSE repository[rev].manifest

\* hg_changectx_revision.__init__ for the files of the next changeset; an
\* exception of the translation ends the run
ReadFiles ==
    /\ pc = "loading"
    /\ Len(changectx_dict) < Len(repository)
    /\ IF FilesRaise(repository[Len(changectx_dict) + 1].manifest,
                     ParentManifest(Len(changectx_dict)))
       THEN /\ pc' = "failed"
            /\ failed_on' = Len(changectx_dict)
            /\ UNCHANGED changectx_dict
       ELSE /\ changectx_dict' =
                Append(changectx_dict,
                       [nodes |-> FileNodesOf(repository[Len(changectx_dict) + 1],
                                              ParentManifest(Len(changectx_dict)))])
            /\ UNCHANGED <<pc, failed_on>>
    /\ UNCHANGED <<revisions, branches_list, rev_infos, maps, all_refs, commits,
                   queued_refs, repo_refs, head_branch, cfg, repository, options,
                   exit_status, branches_changed, sink_calls, git_sha1>>

NextFiles == ReadFiles

\* The files of the input alphabet: two .hgignore texts, a link target, two
\* .gitignore texts
HgIgnoreGlob == <<"s", "y", "n", "t", "a", "x", ":", " ", "g", "l", "o", "b", "\n", "*", ".", "l", "o", "g", "\n">>
HgIgnoreRegexp == <<"^", "b", "u", "i", "l", "d", "/", ".", "*", "$", "\n">>
LinkTarget == <<"i", "g", "n", "o", "r", "e">>
GitIgnoreA == <<"*", ".", "o", "\n">>
GitIgnoreB == <<"*", ".", "t", "m", "p", "\n">>

\* the file contexts a path can have in a manifest
FileCtxs(path) ==
    IF path = <<".gitignore">>
    THEN {NoFile, FileCtx(GitIgnoreA, FALSE, FALSE), FileCtx(GitIgnoreB, FALSE, FALSE)}
    ELSE IF path = <<".hgignore">>
    THEN {NoFile, FileCtx(HgIgnoreGlob, FALSE, FALSE), FileCtx(HgIgnoreRegexp, FALSE, FALSE),
          FileCtx(LinkTarget, TRUE, FALSE), FileCtx(HgIgnoreGlob, FALSE, TRUE)}
    ELSE IF path = <<"sub", ".hgignore">>
    THEN {NoFile, FileCtx(HgIgnoreRegexp, FALSE, FALSE)}
    ELSE {NoFile}

Manifests ==
    {m \in [{FilePaths[i] : i \in 1..Len(FilePaths)} ->
                UNION {FileCtxs(FilePaths[i]) : i \in 1..Len(FilePaths)}] :
        \A i \in 1..Len(FilePaths) : m[FilePaths[i]] \in FileCtxs(FilePaths[i])}

\* A changelog of two changesets in a line; the second one may have an
\* additional parent, so that its files come from the comparison of the trees
InitFiles ==
    /\ pc = "loading"
    /\ revisions = <<>>
    /\ branches_list = <<>>
    /\ rev_infos = <<>>
    /\ maps = <<>>
    /\ all_refs = <<>>
    /\ commits = <<>>
    /\ queued_refs = <<>>
    /\ repo_refs = {}
    /\ head_branch = None
    /\ failed_on = NoRev
    /\ exit_status = NoStatus
    /\ branches_changed = <<>>
    /\ sink_calls = <<>>
    /\ git_sha1 = {}
    /\ cfg = [unmapped_branches |-> {}, unmapped_tags |-> {}]
    /\ \E parent \in Manifests, manifest \in Manifests, merge \in BOOLEAN :
          repository = << [manifest |-> parent, merge |-> FALSE],
                          [manifest |-> manifest, merge |-> merge] >>
    /\ changectx_dict = <<>>
    /\ options \in [convert_hgignore : BOOLEAN]

SpecFiles == InitFiles /\ [][NextFiles]_vars

\* The lines of the .hgignore files of the translator runs
MaxLines == 4

IgnoreLines ==
    { <<"s", "y", "n", "t", "a", "x", ":", " ", "g", "l", "o", "b">>, <<"*", ".", "l", "o", "g">>, <<"s", "y", "n", "t", "a", "x", ":", " ", "r", "e", "g", "e", "x", "p">>, <<"^", "b", "u", "i", "l", "d", "/", ".", "*", "$">>, <<"(", "?", ":", "a", "|", "b", ")">> }

\* the texts of n lines
RECURSIVE IgnoreTexts(_)
IgnoreTexts(n) ==
    IF n = 0 THEN {<<>>}
    ELSE {line \o <<"\n">> \o text : line \in IgnoreLines, text \in IgnoreTexts(n - 1)}

\* A changelog of one changeset that adds .hgignore, read with --convert-hgignore
InitIgnore ==
    /\ pc = "loading"
    /\ revisions = <<>>
    /\ branches_list = <<>>
    /\ rev_infos = <<>>
    /\ maps = <<>>
    /\ all_refs = <<>>
    /\ commits = <<>>
    /\ queued_refs = <<>>
    /\ repo_refs = {}
    /\ head_branch = None
    /\ failed_on = NoRev
    /\ exit_status = NoStatus
    /\ branches_changed = <<>>
    /\ sink_calls = <<>>
    /\ git_sha1 = {}
    /\ cfg = [unmapped_branches |-> {}, unmapped_tags |-> {}]
    /\ \E n \in 0..MaxLines : \E data \in IgnoreTexts(n) :
          repository = << [manifest |-> [path \in {<<".hgignore">>} |->
                                            FileCtx(data, FALSE, FALSE)],
                           merge |-> FALSE] >>
    /\ changectx_dict = <<>>
    /\ options = [convert_hgignore |-> TRUE]

SpecIgnore == InitIgnore /\ [][NextFiles]_vars


\* The pattern lines of the .hgignore files of the pattern runs: the syntax
\* lines, patterns that become .git/, regular expressions with and without a
\* glob equivalent, a glob with braces
MaxPatterns == 2

HgIgnorePatterns ==
    { <<"s", "y", "n", "t", "a", "x", ":", " ", "g", "l", "o", "b">>, <<"s", "y", "n", "t", "a", "x", ":", " ", "r", "o", "o", "t", "g", "l", "o", "b">>, <<"s", "y", "n", "t", "a", "x", ":", " ", "f", "o", "o">>,
      <<".", "g", "i", "t", "/">>, <<"*", "*", "/", ".", "g", "i", "t", "/", "*", "*">>, <<"/", "\\", ".", "g", "i", "t", "/">>, <<"r", "e", ":", "/", "\\", ".", "g", "i", "t", "/">>,
      <<"^", "f", "o", "o", "\\", "d", "$">>, <<"[", "a", "b", "]", "+">>, <<"{", "a", ",", "b", "}">>, <<"(", "?", ":", "a", "|", "b", ")">>, <<"(", "a">>, <<"a", ")">>,
      <<"a", "$", "b">>, <<"a", "^", "b">>, <<"a", "b", "?">>, <<"?", "a">>, <<"g", "l", "o", "b", ":", "*", ".", "o">> }

PatternSeqs == UNION {[1..n -> HgIgnorePatterns] : n \in 0..MaxPatterns}

\* A changelog of one changeset that adds .hgignore with these lines, read
\* with --convert-hgignore
InitPatterns ==
    /\ pc = "loading"
    /\ revisions = <<>>
    /\ branches_list = <<>>
    /\ rev_infos = <<>>
    /\ maps = <<>>
    /\ all_refs = <<>>
    /\ commits = <<>>
    /\ queued_refs = <<>>
    /\ repo_refs = {}
    /\ head_branch = None
    /\ failed_on = NoRev
    /\ exit_status = NoStatus
    /\ branches_changed = <<>>
    /\ sink_calls = <<>>
    /\ git_sha1 = {}
    /\ cfg = [unmapped_branches |-> {}, unmapped_tags |-> {}]
    /\ \E lines \in PatternSeqs :
          repository = << [manifest |-> [path \in {<<".hgignore">>} |->
                                            FileCtx(JoinLines(lines), FALSE, FALSE)],
                           merge |-> FALSE] >>
    /\ changectx_dict = <<>>
    /\ options = [convert_hgignore |-> TRUE]

SpecPatterns == InitPatterns /\ [][NextFiles]_vars

-----------------------------------------------------------------------------
(* hg-to-git.py: the process, from main to its exit status *)

\* the exception classes that the except clauses of __main__ name
Handled == {"RepoError", "FileNotFoundError", "Exception_history_parse",
            "Exception_cfg_parse"}

\* every exception sends 1 as the exit status
ExitStatus_always_1(at) == IF at = "done" THEN 0 ELSE 1

\* sys.exit(main()) and the except clauses of __main__: at is where main
\* ended, "done" when it returned, the name of the exception class of a
\* handler, "interrupted" for KeyboardInterrupt; the interpreter ends with 1
\* on an exception that no clause names
ExitStatus(at) ==
    IF at = "done" THEN 0
    ELSE IF at = "RepoError" THEN 2
    ELSE IF at = "FileNotFoundError" THEN 1
    ELSE IF at = "Exception_history_parse" THEN 128
    ELSE IF at = "Exception_cfg_parse" THEN 128
    ELSE IF at = "interrupted" THEN 130
    ELSE 1

\* main up to the call of load: the configuration is read by
\* project_history_tree(options) and the repository is opened by
\* hg_repository_reader(options.in_repository); either may raise
Start ==
    /\ pc = "starting"
    /\ pc' \in {"loading", "RepoError", "FileNotFoundError", "Exception_cfg_parse"}
    /\ UNCHANGED <<revisions, branches_list, rev_infos, maps, all_refs, commits,
                   queued_refs, repo_refs, head_branch, failed_on, cfg,
                   repository, changectx_dict, options, exit_status,
                   branches_changed, sink_calls, git_sha1>>

\* the reader of the history raises Exception_history_parse while load runs
HistoryParseError ==
    /\ pc = "loading"
    /\ pc' = "Exception_history_parse"
    /\ failed_on' = Len(revisions)
    /\ UNCHANGED <<revisions, branches_list, rev_infos, maps, all_refs, commits,
                   queued_refs, repo_refs, head_branch, cfg,
                   repository, changectx_dict, options, exit_status,
                   branches_changed, sink_calls, git_sha1>>

\* the process exits
Exit ==
    /\ pc \in {"done", "failed", "interrupted"} \cup Handled
    /\ exit_status = NoStatus
    /\ exit_status' = ExitStatus(pc)
    /\ UNCHANGED <<pc, revisions, branches_list, rev_infos, maps, all_refs, commits,
                   queued_refs, repo_refs, head_branch, failed_on, cfg,
                   repository, changectx_dict, options, branches_changed,
                   sink_calls, git_sha1>>

InitMain ==
    /\ pc = "starting"
    /\ revisions = <<>>
    /\ branches_list = <<>>
    /\ rev_infos = <<>>
    /\ maps = <<>>
    /\ all_refs = <<>>
    /\ commits = <<>>
    /\ queued_refs = <<>>
    /\ repo_refs = {}
    /\ head_branch = None
    /\ failed_on = NoRev
    /\ exit_status = NoStatus
    /\ branches_changed = <<>>
    /\ sink_calls = <<>>
    /\ git_sha1 = {}
    /\ cfg = [unmapped_branches |-> {}, unmapped_tags |-> {}]
    /\ repository = <<>>
    /\ changectx_dict = <<>>
    /\ options = [convert_hgignore |-> FALSE]

NextMain ==
    \/ Start
    \/ LoadRevision
    \/ HistoryParseError
    \/ FinalizeBranches
    \/ CommitRefsUpdate
    \/ Interrupt
    \/ Exit

SpecMain == InitMain /\ [][NextMain]_vars

-----------------------------------------------------------------------------
(* project_tree.py: the registry of refnames under repeated requests *)

\* The requests of the refname runs: branches of one name are finalized one
\* after the other, and one branch of another name among the first of them
MaxRequests == 101
MaxEarly == 3

MainRef == <<"refs", "heads", "main">>
OtherRef == <<"refs", "heads", "feature">>

\* finalize of a branch without commit: the refname is requested and
\* registered (project_branch.finalize, `if self.HEAD.tree:`)
RequestRefname ==
    /\ pc = "loading"
    /\ Len(all_refs) < MaxRequests
    /\ \E ref \in {MainRef, OtherRef} :
          /\ ref = OtherRef =>
                /\ Len(all_refs) < MaxEarly
                /\ \A j \in 1..Len(all_refs) : all_refs[j].requested # OtherRef
          /\ Becomes(make_unique_refname(State, map_ref(ref),
                                         IF ref = MainRef THEN "default" ELSE "feature").st)
    /\ UNCHANGED <<pc, failed_on, cfg, repository, changectx_dict, options, exit_status>>

NextRefnames == RequestRefname

SpecRefnames == Init /\ [][NextRefnames]_vars

-----------------------------------------------------------------------------
(* Properties *)

\* the branch revisions that went through make_commit
Made == {r \in 1..Len(rev_infos) : rev_infos[r].rev # NoRev}

\* the commit made by commit_tree for a branch revision, if there is one
CommitsOf(r) == {c \in 1..Len(commits) : commits[c].rev_info = r}

\* the distinct commits of the parents of a branch revision
ParentCommits(r) ==
    {rev_infos[rev_infos[r].parents[i]].commit : i \in 1..Len(rev_infos[r].parents)}
        \ {None}

\* the committed git tree of the base parent: the empty tree without a parent commit
BaseGitTree(r) ==
    IF rev_infos[r].base_rev = None THEN initial_git_tree
    ELSE rev_infos[rev_infos[r].base_rev].committed_git_tree

\* C1: make_commit calls commit_tree for a revision iff its staged git tree
\* differs from the committed git tree of the base parent (the empty tree when
\* no parent has a commit) or it has two or more parent commits; otherwise no
\* commit is made and the revision inherits the commit of the base parent.
C1_CommitIffChangedOrMerge ==
    \A r \in Made :
        LET changed == rev_infos[r].staged_git_tree # BaseGitTree(r)
            merge == Cardinality(ParentCommits(r)) >= 2
            base == rev_infos[r].base_rev
        IN /\ (base = None) <=> (ParentCommits(r) = {})
           /\ base # None => rev_infos[base].commit \in ParentCommits(r)
           /\ (CommitsOf(r) # {}) <=> (changed \/ merge)
           /\ Cardinality(CommitsOf(r)) <= 1
           /\ CommitsOf(r) # {} => CommitsOf(r) = {rev_infos[r].commit}
           /\ CommitsOf(r) = {} =>
                rev_infos[r].commit = IF base = None THEN None ELSE rev_infos[base].commit

\* a revision that inherited the commit of its parent, and a merge that was
\* committed although its tree is the tree of the base parent
C1_Witness ==
    /\ \E r \in Made : CommitsOf(r) = {} /\ rev_infos[r].commit # None
    /\ \E r \in Made : /\ CommitsOf(r) # {}
                       /\ rev_infos[r].staged_git_tree = BaseGitTree(r)
                       /\ Cardinality(ParentCommits(r)) >= 2

\* C2: every parent of an emitted commit is a commit made earlier, and when the
\* previous HEAD of the branch has a commit, that commit is the first parent.
C2_ParentsEarlierHeadFirst ==
    \A c \in 1..Len(commits) :
        LET parents == commits[c].parents
            HEAD == rev_infos[commits[c].rev_info].prev_rev
        IN /\ \A i \in 1..Len(parents) : parents[i] \in 1..(c - 1)
           /\ rev_infos[HEAD].commit # None =>
                parents # <<>> /\ parents[1] = rev_infos[HEAD].commit

\* a merge commit on a branch whose previous HEAD has a commit
C2_Witness ==
    \E c \in 1..Len(commits) :
        /\ Len(commits[c].parents) = 2
        /\ rev_infos[rev_infos[commits[c].rev_info].prev_rev].commit = commits[c].parents[1]

\* the changesets read so far form one chain on one branch, each changing the tree
LinearChain ==
    /\ pc # "failed"
    /\ revisions # <<>>
    /\ \A i \in 1..Len(revisions) :
        /\ revisions[i].branch_name = revisions[1].branch_name
        /\ revisions[i].p2 = NoRev
        /\ revisions[i].p1 = (IF i = 1 THEN NoRev ELSE i - 2)
        /\ revisions[i].hgtree #
                (IF i = 1 THEN empty_tree ELSE revisions[i - 1].hgtree)

QueuedRefs == {queued_refs[i] : i \in 1..Len(queued_refs)}

\* C3: a linear chain of N changesets on one mapped branch, each changing the
\* tree, gives exactly N commits; the first has no parent, each later one has
\* the previous commit as only parent; one ref <revisions_ref>/r<rev> is queued
\* per commit, and finalize queues the branch ref to the last commit.
C3_LinearChainCommits ==
    LinearChain =>
        LET N == Len(revisions)
            revisions_ref == RevisionsRef(BranchRefname(revisions[1].branch_name))
            RevRef(i) == revisions_ref \o <<"r" \o ToString(i - 1)>>
        IN /\ Len(commits) = N
           /\ \A i \in 1..N :
                /\ commits[i].parents = (IF i = 1 THEN <<>> ELSE <<i - 1>>)
                /\ commits[i].rev = i - 1
                /\ Cardinality({k \in 1..Len(queued_refs) :
                                    queued_refs[k][1] = RevRef(i)}) = 1
                /\ <<RevRef(i), i>> \in QueuedRefs
           /\ Len(branches_list) = 1
           /\ LET branch_refs == {k \in 1..Len(queued_refs) :
                                    queued_refs[k][1] = BranchRefname(revisions[1].branch_name)}
              IN /\ pc \in {"finalized", "done"} =>
                    /\ Cardinality(branch_refs) = 1
                    /\ queued_refs[Len(queued_refs)] =
                            <<BranchRefname(revisions[1].branch_name), N>>
                 /\ pc = "loading" => branch_refs = {}

\* a chain of three changesets, finalized
C3_Witness ==
    /\ LinearChain
    /\ Len(revisions) = 3
    /\ pc = "done"
    /\ <<<<"refs", "heads", "main">>, 3>> \in repo_refs
    /\ <<<<"refs", "revisions", "main", "r2">>, 3>> \in repo_refs

\* the branch revision in effect at changeset rev on a branch: the one made
\* for the latest changeset up to rev that was committed on the branch
InEffect(branch, rev) ==
    LET made == {r \in Made : rev_infos[r].branch = branch /\ rev_infos[r].rev <= rev}
    IN IF made = {} THEN None
       ELSE CHOOSE r \in made : \A q \in made : rev_infos[q].rev <= rev_infos[r].rev

\* the commit in effect at a changeset on the branch of the changeset
CommitAt(rev) ==
    LET r == InEffect(revisions[rev + 1].branch, rev)
    IN IF r = None THEN None ELSE rev_infos[r].commit

\* the commits made on a branch, by their position in the order of commit_tree calls
CommitsOn(branch) == {c \in 1..Len(commits) : commits[c].branch = branch}

\* changeset i starts a new branch from its first parent
StartsBranch(i) ==
    /\ revisions[i].p1 # NoRev
    /\ revisions[i].parent_revision = NoRev
    /\ revisions[i].p2 = NoRev
    /\ revisions[i].branch # None

\* the first commit of the branch started by changeset i has the commit in
\* effect at the first parent of i as its first parent, and as its only
\* parent when it is the commit of changeset i
FirstCommitFromParent(i) ==
    LET on == CommitsOn(revisions[i].branch)
        first == CHOOSE c \in on : \A d \in on : c <= d
    IN (CommitAt(revisions[i].p1) # None /\ on # {}) =>
            /\ commits[first].parents # <<>>
            /\ commits[first].parents[1] = CommitAt(revisions[i].p1)
            /\ commits[first].rev = i - 1 =>
                    commits[first].parents = <<CommitAt(revisions[i].p1)>>

\* C4: when a changeset starts a new branch from its first parent P, the first
\* commit made on the new branch has as parent the commit in effect at P on the
\* branch of P, for every revision number of P, changeset 0 included, and also
\* when the branch of P has advanced past P.
C4_NewBranchParentIsCommitAtP ==
    \A i \in 1..Len(revisions) : StartsBranch(i) => FirstCommitFromParent(i)

\* the same for the branches started from a changeset other than changeset 0
C4_ExceptFromRevisionZero ==
    \A i \in 1..Len(revisions) :
        (StartsBranch(i) /\ revisions[i].p1 # 0) => FirstCommitFromParent(i)

\* a branch was started from a changeset other than 0 after the branch of that
\* changeset advanced, and has a commit
C4_LaterParentReached ==
    \E i \in 1..Len(revisions) :
        /\ StartsBranch(i) /\ revisions[i].p1 > 0
        /\ CommitsOn(revisions[i].branch) # {}
        /\ CommitAt(revisions[i].p1) # None
        /\ \E j \in 1..(i - 1) : revisions[j].parent_revision = revisions[i].p1

\* the branch revision made for changeset i on the branch of i
MadeFor(i) ==
    {r \in Made : rev_infos[r].branch = revisions[i].branch /\ rev_infos[r].rev = i - 1}

\* changeset i is a merge that continues its first parent and has a second
\* parent on another branch, which has a commit of its own and was not merged
\* into the branch before
MergesOtherBranch(i) ==
    LET p1 == revisions[i].p1
        p2 == revisions[i].p2
    IN /\ p2 # NoRev
       /\ revisions[i].parent_revision = p1
       /\ pc # "failed"
       /\ revisions[p2 + 1].branch # revisions[i].branch
       /\ CommitAt(p1) # None /\ CommitAt(p2) # None /\ CommitAt(p1) # CommitAt(p2)
       /\ MadeFor(i) # {}
       /\ LET r == CHOOSE r \in MadeFor(i) : TRUE
              merged == DictGet(maps[rev_infos[rev_infos[r].prev_rev].merged_revisions],
                                revisions[p2 + 1].branch)
          IN merged = None
             \/ rev_infos[merged].rev < rev_infos[InEffect(revisions[p2 + 1].branch, p2)].rev

\* the commit of the merge changeset i has the commits of p1 and p2 as parents
MergeParentsInOrder(i) ==
    LET r == CHOOSE r \in MadeFor(i) : TRUE
    IN /\ CommitsOf(r) # {}
       /\ \A c \in CommitsOf(r) :
            commits[c].parents = <<CommitAt(revisions[i].p1), CommitAt(revisions[i].p2)>>

\* C5: for a merge changeset whose first parent p1 continues the branch of the
\* changeset and whose second parent p2 is on another branch (p2 has a commit
\* distinct from the commit of p1 and is not merged yet), the commit made has
\* exactly two parents, in the order commit of p1, commit of p2.
C5_MergeParentsOrder ==
    \A i \in 1..Len(revisions) : MergesOtherBranch(i) => MergeParentsInOrder(i)

\* the same for the merges whose second parent is not changeset 0
C5_ExceptSecondParentZero ==
    \A i \in 1..Len(revisions) :
        (MergesOtherBranch(i) /\ revisions[i].p2 # 0) => MergeParentsInOrder(i)

\* a merge of a second parent other than changeset 0 was committed
C5_LaterParentReached ==
    \E i \in 1..Len(revisions) : MergesOtherBranch(i) /\ revisions[i].p2 > 0

\* C6: after every make_commit the entries (path, blob, mode) accumulated in
\* the index of the branch equal the file entries of the tree of the revision,
\* and the staged git tree of the revision, written from the index or
\* inherited from the previous revision, is the serialization of that tree.
C6_StagedTreeIsRevisionTree ==
    /\ \A r \in Made :
            rev_infos[r].staged_git_tree = write_tree(TreeEntries(rev_infos[r].tree))
    /\ \A b \in 1..Len(branches_list) :
            branches_list[b].HEAD \in Made =>
                branches_list[b].index = TreeEntries(rev_infos[branches_list[b].HEAD].tree)
    /\ \A c \in 1..Len(commits) :
            commits[c].tree = write_tree(TreeEntries(rev_infos[commits[c].rev_info].tree))

\* a revision that deleted files of its branch was committed, and a revision
\* with an empty stage list inherited the staged tree of the previous one
C6_Witness ==
    /\ \E c \in 1..Len(commits) :
        LET r == commits[c].rev_info
            HEAD == rev_infos[r].prev_rev
        IN /\ rev_infos[HEAD].tree # NoTree
           /\ \E p \in PathSet : rev_infos[HEAD].tree[p] # 0 /\ rev_infos[r].tree[p] = 0
    /\ \E r \in Made : /\ ~rev_infos[r].any_changes_present
                       /\ rev_infos[r].tree # empty_tree

\* the revision recorded for a branch in the merged_revisions of a branch
\* revision; None when the branch is not recorded
MergedRev(r, branch) == DictGet(maps[rev_infos[r].merged_revisions], branch)

\* C7: along the prev_rev chain of a branch, for every other branch B the
\* revision number recorded in merged_revisions[B] never decreases from one
\* branch revision to the next.
C7_MergedRevisionsMonotone ==
    \A r \in 1..Len(rev_infos) : \A b \in 1..Len(branches_list) :
        LET prev_rev == rev_infos[r].prev_rev
        IN (prev_rev # None /\ MergedRev(prev_rev, b) # None) =>
                /\ MergedRev(r, b) # None
                /\ rev_infos[MergedRev(r, b)].rev >= rev_infos[MergedRev(prev_rev, b)].rev

\* a merge advanced the revision recorded for another branch: the branch
\* revision of the merge records its second parent, a later revision than
\* the one its predecessor records
C7_Witness ==
    \E r \in Made : \E b \in 1..Len(branches_list) :
        LET prev_rev == rev_infos[r].prev_rev
        IN /\ MergedRev(prev_rev, b) # None
           /\ rev_infos[MergedRev(r, b)].rev > rev_infos[MergedRev(prev_rev, b)].rev
           /\ rev_infos[MergedRev(r, b)].rev = revisions[rev_infos[r].rev + 1].p2

\* the number of registrations before the i-th that requested the same name
EarlierRequests(i) ==
    Cardinality({j \in 1..(i - 1) : all_refs[j].requested = all_refs[i].requested})

\* the suffix number of the i-th registered refname: 0 for the requested name
SuffixOf(i) ==
    CHOOSE k \in 0..(RefnameProbes - 1) :
        all_refs[i].ref = Suffixed(all_refs[i].requested, k)

\* the name requested by the i-th registration was free of the paths of the
\* other names registered before it
BaseWasFree(i) ==
    \A j \in 1..(i - 1) :
        all_refs[j].requested # all_refs[i].requested =>
            ~IsPrefix(all_refs[i].requested, all_refs[j].ref)

\* no refname is handed out twice, and no two refs are queued or written under
\* one name
RefnamesDistinct ==
    /\ \A i, j \in 1..Len(all_refs) : i # j => all_refs[i].ref # all_refs[j].ref
    /\ \A i, j \in 1..Len(queued_refs) : i # j => queued_refs[i][1] # queued_refs[j][1]
    /\ \A x \in repo_refs : \A y \in repo_refs : x[1] = y[1] => x = y
    /\ \A i \in 1..Len(queued_refs) : \E j \in 1..Len(all_refs) :
            all_refs[j].ref = queued_refs[i][1]

\* C8 as stated: make_unique_refname never returns a refname it returned
\* before, so no two refs are queued or written under one name; of the
\* requests of one base name the first keeps the name and the later ones get
\* the suffixes ___1, ___2, ... in the order of the requests.
C8_FirstRequesterKeepsBase ==
    /\ RefnamesDistinct
    /\ \A i \in 1..Len(all_refs) :
            all_refs[i].ref = Suffixed(all_refs[i].requested, EarlierRequests(i))

\* C8, amended: make_unique_refname never returns a refname it returned
\* before; every returned name is the requested name or the requested name
\* with a suffix ___k, the suffixes of one requested name increase in the
\* order of the requests, and the first requester keeps the name and the
\* later ones get ___1, ___2, ... when the requested name is not a directory
\* of a refname registered earlier.
C8_UniqueRefnames ==
    /\ RefnamesDistinct
    /\ \A i \in 1..Len(all_refs) :
            /\ \E k \in 0..(RefnameProbes - 1) :
                    all_refs[i].ref = Suffixed(all_refs[i].requested, k)
            /\ \A j \in 1..(i - 1) :
                    all_refs[j].requested = all_refs[i].requested =>
                        SuffixOf(j) < SuffixOf(i)
            /\ BaseWasFree(i) => SuffixOf(i) = EarlierRequests(i)

\* the first requester of refs/heads/feature received refs/heads/feature___1,
\* refs/heads/feature being a directory of refs/heads/feature/x
C8_DirectoryTaken ==
    \E i \in 1..Len(all_refs) :
        /\ ~BaseWasFree(i)
        /\ EarlierRequests(i) = 0
        /\ SuffixOf(i) = 1

\* three branches named default were finalized: main, main___1 and main___2
C8_Witness ==
    /\ pc = "done"
    /\ \E i, j, k \in 1..Len(all_refs) :
        /\ i < j /\ j < k
        /\ all_refs[i].ref = <<"refs", "heads", "main">>
        /\ all_refs[j].ref = <<"refs", "heads", "main___1">>
        /\ all_refs[k].ref = <<"refs", "heads", "main___2">>
    /\ Cardinality({x \in repo_refs : x[1][2] = "heads"}) = 3

CherryPicks(i) ==
    LET s == revisions[i].source
        b == revisions[i].branch
        src == InEffect(revisions[s + 1].branch, s)
        at == IF MadeFor(i) = {} THEN branches_list[b].stage
              ELSE CHOOSE r \in MadeFor(i) : TRUE
    IN /\ s >= 0
       /\ b # None
       /\ revisions[s + 1].branch # None
       /\ src # None
       /\ rev_infos[src].rev_commit # None
       /\ ~is_merged_from(State, at, src)
       /\ ~DictHas(rev_infos[at].revisions_to_merge, revisions[s + 1].branch)

\* C10: when a changeset names in extra.source an earlier changeset whose
\* branch revision has a commit and is not merged into the current branch, the
\* run continues, the commit made for the changeset carries the line
\* Cherry-picked-from: <commit of the source> <short ref>;<source rev>, and
\* the commit of the source is not among the parents of the commit.
C10_CherryPickFooter ==
    \A i \in 1..Len(revisions) :
        CherryPicks(i) =>
            LET s == revisions[i].source
                src == InEffect(revisions[s + 1].branch, s)
                line == [commit |-> rev_infos[src].commit,
                         refname |-> ShortRef(branches_list[revisions[s + 1].branch]),
                         rev |-> s]
            IN /\ failed_on # i - 1
               /\ \A c \in 1..Len(commits) :
                    (commits[c].branch = revisions[i].branch /\ commits[c].rev = i - 1) =>
                        /\ SeqHas(commits[c].cherry_picks, line)
                        /\ ~SeqHas(commits[c].parents, rev_infos[src].commit)

UnmappedAdd(r) ==
    r.branch_name \in cfg.unmapped_branches /\ r.parent_revision = NoRev

\* C12: applying a changeset whose add node names a branch without branch map
\* creates no branch, makes no commit and queues or writes no ref.
C12_UnmappedAddNotProjected ==
    [][(Len(revisions') = Len(revisions) + 1
        /\ UnmappedAdd(revisions'[Len(revisions')]))
       => /\ Len(branches_list') = Len(branches_list)
          /\ commits' = commits
          /\ queued_refs' = queued_refs
          /\ repo_refs' = repo_refs]_vars

\* the last changeset starts an unmapped branch from a parent whose branch has
\* a commit, changes files and was applied without error
C12_Witness ==
    /\ pc = "loading"
    /\ failed_on = NoRev
    /\ revisions # <<>>
    /\ LET r == revisions[Len(revisions)]
       IN /\ UnmappedAdd(r)
          /\ r.p1 # NoRev
          /\ r.hgtree # revisions[r.p1 + 1].hgtree
          /\ revisions[r.p1 + 1].branch # None
          /\ \E c \in 1..Len(commits) : commits[c].branch = revisions[r.p1 + 1].branch

\* C13: no changeset on an unmapped branch name and no changeset carrying an
\* unmapped tag label ends the run with a fatal error (changesets with a graft
\* source are left out: the cherrypick action fails for them in any case).
C13_UnmappedNeverFatal ==
    \A i \in 1..Len(revisions) :
        (/\ revisions[i].source = NoRev
         /\ \/ revisions[i].branch_name \in cfg.unmapped_branches
            \/ \E t \in 1..Len(revisions[i].tags) :
                    revisions[i].tags[t] \in cfg.unmapped_tags)
        => failed_on # i - 1

\* C14: the node list of every changeset is ordered - an optional add branch
\* node first, then for the additional parent a parent node optionally followed
\* by the delete branch node of that parent, then the file nodes, then one tag
\* node per tag label in the order of the labels, then at most one cherrypick
\* node, present exactly when the changeset records a graft source; and the
\* nodes are applied in that order, so that the tree kept for a changeset that
\* was applied is the tree of the changeset.
NodeRank(node) ==
    IF node.kind # "branch" THEN 3
    ELSE IF node.action = "add" THEN 1
    ELSE IF node.action \in {"parent", "delete"} THEN 2
    ELSE IF node.action = "tag" THEN 4
    ELSE 5

NodesOf(r) == changectx_dict[r].nodes

NodesWhere(r, kind, action) ==
    {i \in 1..Len(NodesOf(r)) : NodesOf(r)[i].kind = kind /\ NodesOf(r)[i].action = action}

C14_NodesOrderedAndAppliedInOrder ==
    \A r \in 1..Len(changectx_dict) :
        LET nodes == NodesOf(r)
            c == repository[r]
            tagged == NodesWhere(r, "branch", "tag")
        IN /\ \A i, j \in 1..Len(nodes) : i < j => NodeRank(nodes[i]) <= NodeRank(nodes[j])
           /\ Cardinality(NodesWhere(r, "branch", "add")) <= 1
           /\ Cardinality(NodesWhere(r, "branch", "parent")) =
                    (IF c.p2 = NoRev THEN 0 ELSE 1)
           /\ \A i \in NodesWhere(r, "branch", "parent") : nodes[i].copyfrom_rev = c.p2
           /\ \A i \in NodesWhere(r, "branch", "delete") :
                    /\ i > 1
                    /\ nodes[i - 1].kind = "branch" /\ nodes[i - 1].action = "parent"
                    /\ nodes[i - 1].copyfrom_rev = nodes[i].copyfrom_rev
           /\ Cardinality(tagged) = Len(c.tags)
           /\ \A i \in tagged :
                    nodes[i].tag = c.tags[1 + Cardinality({j \in tagged : j < i})]
           /\ Cardinality(NodesWhere(r, "branch", "cherrypick")) =
                    (IF c.source = NoRev THEN 0 ELSE 1)
           /\ failed_on # r - 1 => revisions[r].tree = c.hgtree

\* a merge that starts a branch and ends the merged one was projected into
\* add, parent, delete and file nodes, and the run applied it without failure
C14_Witness ==
    /\ failed_on = NoRev
    /\ \E r \in 1..Len(changectx_dict) :
          /\ NodesWhere(r, "branch", "add") # {}
          /\ NodesWhere(r, "branch", "parent") # {}
          /\ NodesWhere(r, "branch", "delete") # {}
          /\ \E i \in 1..Len(NodesOf(r)) : NodesOf(r)[i].kind = "file"

\* C15: the node list of a changeset has an add branch node exactly when the
\* changeset has no parent, or its first parent has another branch name, or an
\* earlier changeset of the same branch name already has the same first parent
\* (it continues that parent); the add node names the branch of the changeset
\* and carries the first parent as copy source when there is one.
HasContinuingChild(p1, rev) ==
    \E k \in 0..(rev - 1) : /\ repository[k + 1].p1 = p1
                            /\ repository[k + 1].branch = repository[p1 + 1].branch

C15_AddBranchExactlyWhen ==
    \A r \in 1..Len(changectx_dict) :
        LET c == repository[r]
            adds == NodesWhere(r, "branch", "add")
        IN /\ adds # {} <=> \/ c.p1 = NoRev
                            \/ repository[c.p1 + 1].branch # c.branch
                            \/ HasContinuingChild(c.p1, r - 1)
           /\ \A i \in adds : /\ NodesOf(r)[i].path = c.branch
                              /\ NodesOf(r)[i].copyfrom_rev = c.p1

\* a changeset whose first parent, of the same branch name, was already
\* continued by an earlier child got an add node; another one continued its
\* first parent and got none
C15_Witness ==
    /\ \E r \in 1..Len(changectx_dict) :
          /\ NodesWhere(r, "branch", "add") # {}
          /\ repository[r].p1 # NoRev
          /\ repository[repository[r].p1 + 1].branch = repository[r].branch
    /\ \E r \in 1..Len(changectx_dict) :
          /\ NodesWhere(r, "branch", "add") = {}
          /\ repository[r].p1 # NoRev

\* C16: the node list of a changeset has a delete branch node naming P exactly
\* when P is the additional parent of the changeset and every other child of P
\* in the changelog is an earlier changeset that does not continue P (a child
\* of the branch name of P with P as first parent continues P, or follows a
\* child that does); a parent with a later child or a continuing child gets no
\* delete branch node.
OtherChildren(P, rev) == Children(repository, P) \ {rev}

NoRemainingChildren(P, rev) ==
    \A k \in OtherChildren(P, rev) :
        /\ k < rev
        /\ ~(repository[k + 1].p1 = P /\ repository[k + 1].branch = repository[P + 1].branch)

C16_DeleteBranchExactlyWhen ==
    \A r \in 1..Len(changectx_dict) : \A P \in 0..(Len(repository) - 1) :
        (\E i \in NodesWhere(r, "branch", "delete") : NodesOf(r)[i].copyfrom_rev = P)
            <=> (repository[r].p2 = P /\ NoRemainingChildren(P, r - 1))

\* a merge got the delete branch node of its additional parent, which has an
\* earlier child that started another branch
C16_Witness ==
    \E r \in 1..Len(changectx_dict) :
        /\ NodesWhere(r, "branch", "delete") # {}
        /\ OtherChildren(repository[r].p2, r - 1) # {}

\* C17: with hgignore conversion enabled no file node has the path .hgignore
\* or a path that ends in /.hgignore, and every add or change of such a file
\* is emitted as a change node of the sibling .gitignore whose data is the
\* translation of the file.
ManifestOf(r) == repository[r].manifest

HgIgnoreWritten(r) ==
    {i \in 1..Len(FilePaths) :
        /\ IsHgIgnore(FilePaths[i])
        /\ InManifest(FilePaths[i], ManifestOf(r))
        /\ Touched(FilePaths[i], ManifestOf(r), ParentManifest(r - 1))}

Translated(r, path) ==
    FileNode("change", "file", Sibling(path, ".gitignore"),
             hgignore_to_gitignore(ManifestOf(r)[path].data), {})

C17_HgIgnoreNeverAFileNode ==
    options.convert_hgignore =>
        \A r \in 1..Len(changectx_dict) :
            /\ \A i \in 1..Len(NodesOf(r)) : ~IsHgIgnore(NodesOf(r)[i].path)
            /\ \A p \in HgIgnoreWritten(r) :
                    \E i \in 1..Len(NodesOf(r)) : NodesOf(r)[i] = Translated(r, FilePaths[p])

\* C17, for the files that are not symbolic links: the statement holds for them
C17_ExceptSymbolicLinks ==
    options.convert_hgignore =>
        \A r \in 1..Len(changectx_dict) :
            /\ \A i \in 1..Len(NodesOf(r)) :
                    IsHgIgnore(NodesOf(r)[i].path) => "symlink" \in NodesOf(r)[i].props
            /\ \A p \in HgIgnoreWritten(r) :
                    ~ManifestOf(r)[FilePaths[p]].islink =>
                        \E i \in 1..Len(NodesOf(r)) :
                            NodesOf(r)[i] = Translated(r, FilePaths[p])

\* a regular .hgignore was written and projected with the conversion enabled
C17_RegularFileReached ==
    /\ options.convert_hgignore
    /\ \E r \in 1..Len(changectx_dict) : \E p \in HgIgnoreWritten(r) :
            ~ManifestOf(r)[FilePaths[p]].islink

\* C18 as stated: with the conversion enabled, when a changeset deletes an
\* .hgignore file and the parent tree has the sibling .gitignore, a node that
\* restores .gitignore with the content of the parent is emitted; otherwise no
\* node at all is emitted for the path of the sibling .gitignore.
HgIgnoreDeleted(r) ==
    {i \in 1..Len(FilePaths) :
        /\ IsHgIgnore(FilePaths[i])
        /\ InManifest(FilePaths[i], ParentManifest(r - 1))
        /\ ~InManifest(FilePaths[i], ManifestOf(r))}

NodesAt(r, path) == {i \in 1..Len(NodesOf(r)) : NodesOf(r)[i].path = path}

GitIgnoreDeleted(r) ==
    {i \in 1..Len(FilePaths) :
        /\ IsGitIgnore(FilePaths[i])
        /\ InManifest(FilePaths[i], ParentManifest(r - 1))
        /\ ~InManifest(FilePaths[i], ManifestOf(r))
        /\ InManifest(Sibling(FilePaths[i], ".hgignore"), ManifestOf(r))}

C19_GitIgnoreRegenerated ==
    options.convert_hgignore =>
        \A r \in 1..Len(changectx_dict) : \A p \in GitIgnoreDeleted(r) :
            /\ \E i \in NodesAt(r, FilePaths[p]) :
                    NodesOf(r)[i] =
                        FileNode("change", "file", FilePaths[p],
                                 hgignore_to_gitignore(
                                    ManifestOf(r)[Sibling(FilePaths[p], ".hgignore")].data),
                                 {})
            /\ \A i \in NodesAt(r, FilePaths[p]) : NodesOf(r)[i].action # "delete"

\* a changeset that deletes .gitignore and keeps the sibling .hgignore
\* unchanged was projected with the conversion enabled
C19_Witness ==
    /\ options.convert_hgignore
    /\ \E r \in 1..Len(changectx_dict) : \E p \in GitIgnoreDeleted(r) :
            ManifestOf(r)[Sibling(FilePaths[p], ".hgignore")] =
                ParentManifest(r - 1)[Sibling(FilePaths[p], ".hgignore")]

\* C20 as stated: for the .hgignore of the lines "syntax: glob", "*.log",
\* "syntax: regexp", "^build/.*$" the output of hgignore_to_gitignore has the
\* lines "**/*.log" and "/build/**", a "# regexp:" comment line with the
\* regular expression, and no "syntax:" line.
ExampleHgIgnore == <<"s", "y", "n", "t", "a", "x", ":", " ", "g", "l", "o", "b", "\n", "*", ".", "l", "o", "g", "\n", "s", "y", "n", "t", "a", "x", ":", " ", "r", "e", "g", "e", "x", "p", "\n", "^", "b", "u", "i", "l", "d", "/", ".", "*", "$", "\n">>

ExampleRead == {r \in 1..Len(changectx_dict) :
                    ManifestOf(r)[<<".hgignore">>].data = ExampleHgIgnore}

\* the lines of the .gitignore that changeset r was projected into: every
\* line of the output is ended by a newline
GitIgnoreData(r) == NodesOf(r)[1].data

LineEnd(data, i) ==
    CHOOSE j \in i..Len(data) : data[j] = "\n" /\ \A k \in i..(j - 1) : data[k] # "\n"

GitIgnoreLines(r) ==
    {SubSeq(GitIgnoreData(r), i, LineEnd(GitIgnoreData(r), i) - 1) :
        i \in {k \in 1..Len(GitIgnoreData(r)) : k = 1 \/ GitIgnoreData(r)[k - 1] = "\n"}}

HasLine(r, line) == line \in GitIgnoreLines(r)

NoSyntaxLine(r) ==
    \A line \in GitIgnoreLines(r) : ~StartsWith(line, <<"s", "y", "n", "t", "a", "x", ":">>)

C20_ExampleAsStated ==
    \A r \in ExampleRead :
        /\ HasLine(r, <<"*", "*", "/", "*", ".", "l", "o", "g">>)
        /\ HasLine(r, <<"/", "b", "u", "i", "l", "d", "/", "*", "*">>)
        /\ HasLine(r, <<"#", " ", "r", "e", "g", "e", "x", "p", ":", "^", "b", "u", "i", "l", "d", "/", ".", "*", "$">>)
        /\ NoSyntaxLine(r)

\* C20, amended: for that .hgignore the changeset is projected into one change
\* node of .gitignore whose lines are "*.log", "# regexp:^build/.*$" and
\* "/build/" (a glob of one path component gets no "**/" and a trailing "/**"
\* becomes "/"); and no .hgignore of the alphabet gives a "syntax:" line.
C20_ExampleTranslation ==
    /\ \A r \in ExampleRead :
            NodesOf(r) = << FileNode("change", "file", <<".gitignore">>,
                                     <<"*", ".", "l", "o", "g", "\n", "#", " ", "r", "e", "g", "e", "x", "p", ":", "^", "b", "u", "i", "l", "d", "/", ".", "*", "$", "\n", "/", "b", "u", "i", "l", "d", "/", "\n">>, {}) >>
    /\ \A r \in 1..Len(changectx_dict) : NoSyntaxLine(r)

\* the .hgignore of the four lines was translated
C20_Witness == ExampleRead # {}

\* the .hgignore that changeset r wrote
HgIgnoreData(r) == ManifestOf(r)[<<".hgignore">>].data

\* C21: no active line of the translator's output is ".git/", whichever
\* syntax the pattern came from.
C21_NoGitDirLine ==
    \A r \in 1..Len(changectx_dict) : ~HasLine(r, <<".", "g", "i", "t", "/">>)

\* the globs that become .git/ are dropped: the output of a .hgignore whose
\* lines are glob lines has no line .git/
C21_GlobGitDirDropped ==
    \A r \in 1..Len(changectx_dict) :
        HgIgnoreData(r) \in {<<"s", "y", "n", "t", "a", "x", ":", " ", "g", "l", "o", "b", "\n", ".", "g", "i", "t", "/", "\n">>, <<"s", "y", "n", "t", "a", "x", ":", " ", "g", "l", "o", "b", "\n", "*", "*", "/", ".", "g", "i", "t", "/", "*", "*", "\n">>,
                             <<"s", "y", "n", "t", "a", "x", ":", " ", "r", "o", "o", "t", "g", "l", "o", "b", "\n", "*", "*", "/", ".", "g", "i", "t", "/", "*", "*", "\n">>}
            => GitIgnoreLines(r) = {}

\* the regular expression /\.git/ was translated
C21_RegexpReached ==
    \E r \in 1..Len(changectx_dict) : HgIgnoreData(r) = <<"/", "\\", ".", "g", "i", "t", "/", "\n">>

\* C22: hgignore_to_gitignore returns an output for every input and never
\* raises: no run ends on an exception of the translation.
C22_TranslatorNeverRaises == pc # "failed"

\* the errors that regexp_to_glob raises as re.error are caught: a .hgignore
\* with an unbalanced parenthesis or a misplaced anchor is translated
C22_ReErrorsCaught ==
    \A r \in 1..Len(repository) :
        HgIgnoreData(r) \in {<<"(", "a", "\n">>, <<"a", ")", "\n">>, <<"a", "$", "b", "\n">>, <<"a", "^", "b", "\n">>, <<"[", "a", "b", "]", "+", "\n">>,
                             <<"(", "a", "\n", "a", ")", "\n">>}
            => pc # "failed"

C22_ReErrorsReached ==
    /\ changectx_dict # <<>>
    /\ HgIgnoreData(1) = <<"(", "a", "\n", "a", ")", "\n">>

\* the constructs of a regular expression that have no glob equivalent: a
\* backslash escape other than \., a character class other than [^/]*, one of
\* the quantifiers + { } or a * that follows neither . nor [^/]
BackslashEscape(regexp) ==
    \E i \in 1..Len(regexp) :
        regexp[i] = "\\" /\ (i = Len(regexp) \/ regexp[i + 1] # ".")

CharacterClass(regexp) ==
    \E i \in 1..Len(regexp) :
        /\ regexp[i] = "["
        /\ ~(i + 4 <= Len(regexp) /\ SubSeq(regexp, i, i + 4) = <<"[", "^", "/", "]", "*">>)

Quantifier(regexp) ==
    \E i \in 1..Len(regexp) :
        \/ regexp[i] \in {"+", "{", "}"}
        \/ regexp[i] = "*" /\ (i = 1 \/ regexp[i - 1] \notin {".", "]"})

PlainPattern(line) == Keyword(line) = <<>> /\ ~StartsWith(line, <<"s", "y", "n", "t", "a", "x", ":">>)

\* the text of .hgignore has the one pattern line, which cannot be converted:
\* as a regular expression, as a glob after "syntax: glob", or after the
\* unknown "syntax: foo"
NotConvertible(data, line) ==
    /\ PlainPattern(line)
    /\ \/ /\ data = line \o <<"\n">>
          /\ BackslashEscape(line) \/ CharacterClass(line) \/ Quantifier(line)
       \/ /\ data = <<"s", "y", "n", "t", "a", "x", ":", " ", "g", "l", "o", "b", "\n">> \o line \o <<"\n">>
          /\ Has(line, "{") \/ Has(line, "}")
       \/ data = <<"s", "y", "n", "t", "a", "x", ":", " ", "f", "o", "o", "\n">> \o line \o <<"\n">>

\* C23: a line that cannot be converted is in the output only inside comment
\* lines, with a diagnostic, and gives no active pattern line.
C23_UnconvertibleOnlyInComments ==
    \A r \in 1..Len(changectx_dict) : \A line \in HgIgnorePatterns :
        NotConvertible(HgIgnoreData(r), line)
            => /\ \A out \in GitIgnoreLines(r) : StartsWith(out, <<"#">>)
               /\ HasLine(r, <<"#", " ">> \o line)
               /\ \E out \in GitIgnoreLines(r) : StartsWith(out, <<"#", " ", "U", "n">>)

\* the same without the backslash escapes, which the tokenizer passes on as
\* text of the glob
C23_ExceptBackslashEscapes ==
    \A r \in 1..Len(changectx_dict) : \A line \in HgIgnorePatterns :
        NotConvertible(HgIgnoreData(r), line) /\ ~BackslashEscape(line)
            => /\ \A out \in GitIgnoreLines(r) : StartsWith(out, <<"#">>)
               /\ HasLine(r, <<"#", " ">> \o line)
               /\ \E out \in GitIgnoreLines(r) : StartsWith(out, <<"#", " ", "U", "n">>)

C23_CommentedReached ==
    /\ changectx_dict # <<>>
    /\ HgIgnoreData(1) = <<"s", "y", "n", "t", "a", "x", ":", " ", "g", "l", "o", "b", "\n", "{", "a", ",", "b", "}", "\n">>

\* the tag refs collected on the branch revisions that went through make_commit
Tagged == {r \in Made : rev_infos[r].tags # <<>>}

\* the changeset of a branch revision has a message
HasMessage(r) == revisions[rev_infos[r].rev + 1].log # ""

\* the calls of queue_update_ref for a ref, and the tags written by git_repo.tag
QueuedFor(ref) == {i \in 1..Len(queued_refs) : queued_refs[i][1] = ref}
WrittenFor(ref) == {w \in repo_refs : w[1] = ref}

C24_LightweightReached ==
    \E r \in Tagged : ~HasMessage(r) /\ QueuedFor(rev_infos[r].tags[1]) # {}

\* the branches with a refname whose HEAD has a commit
WithHeadCommit == {b \in 1..Len(branches_list) :
                     /\ branches_list[b].refname # <<>>
                     /\ rev_infos[branches_list[b].HEAD].commit # None}

BranchRefnames == {branches_list[b].refname : b \in WithHeadCommit}

HeadCommits == {rev_infos[branches_list[b].HEAD].commit : b \in WithHeadCommit}

\* the ref updates that finalize_branches queues for the refname, under the
\* name that make_unique_refname registered for it, with the commit
FinalUpdates(refname, commit) ==
    {i \in (Len(queued_refs) + 1)..Len(queued_refs') :
        /\ queued_refs'[i][2] = commit
        /\ \E j \in 1..Len(all_refs') :
              /\ all_refs'[j].ref = queued_refs'[i][1]
              /\ all_refs'[j].requested = refname}

HeadsAt(refname, commit) ==
    {b \in WithHeadCommit :
        /\ branches_list[b].refname = refname
        /\ rev_infos[branches_list[b].HEAD].commit = commit}

\* a registered refname is a path on the way to the refname: the collision
\* cannot be resolved with a number
Unresolvable(refname) ==
    \E j \in 1..Len(all_refs') :
        Len(all_refs'[j].ref) < Len(refname) /\ IsPrefix(all_refs'[j].ref, refname)

\* the steps of load after the last changeset
EndOfStream == pc = "loading" /\ pc' = "finalized"
RefsCommitted == pc' = "done"

C25_UnresolvableReached ==
    /\ pc = "finalized"
    /\ \E b \in WithHeadCommit : \E j \in 1..Len(all_refs) :
          /\ Len(all_refs[j].ref) < Len(branches_list[b].refname)
          /\ IsPrefix(all_refs[j].ref, branches_list[b].refname)

\* C26: the exit status of the process is 0 on success, 1 when an input file
\* is missing, 2 on a Mercurial repository error, 128 on a history parse
\* error, 128 on a config parse error and 130 on user interrupt.
C26_ExitStatus ==
    exit_status # NoStatus =>
        /\ pc = "done" => exit_status = 0
        /\ pc = "FileNotFoundError" => exit_status = 1
        /\ pc = "RepoError" => exit_status = 2
        /\ pc = "Exception_history_parse" => exit_status = 128
        /\ pc = "Exception_cfg_parse" => exit_status = 128
        /\ pc = "interrupted" => exit_status = 130
        /\ exit_status = 0 => pc = "done"

\* a history parse error after a commit was made ended the process
C26_Witness ==
    /\ pc = "Exception_history_parse"
    /\ commits # <<>>
    /\ exit_status = 128

C26_SuccessReached == exit_status = 0 /\ commits # <<>> /\ repo_refs # {}

\* the parents of a branch revision, by position, that have a commit, and
\* those of them whose committed git tree is not the empty tree
WithCommit(r) ==
    {i \in 1..Len(rev_infos[r].parents) : rev_infos[rev_infos[r].parents[i]].commit # None}

NonEmpty(r) ==
    {i \in WithCommit(r) :
        rev_infos[rev_infos[r].parents[i]].committed_git_tree # initial_git_tree}

\* the parents whose commit is not the commit of an earlier parent
FirstOfCommit(r) ==
    {i \in WithCommit(r) :
        \A j \in WithCommit(r) :
            j < i => rev_infos[rev_infos[r].parents[j]].commit
                        # rev_infos[rev_infos[r].parents[i]].commit}

First(S) == CHOOSE i \in S : \A j \in S : i <= j
Last(S) == CHOOSE i \in S : \A j \in S : j <= i

\* the tree is compared against the base parent, and a skipped commit is
\* inherited from it
ComparedWithBase(r) ==
    /\ CommitsOf(r) = {} =>
          /\ rev_infos[r].staged_git_tree = BaseGitTree(r)
          /\ rev_infos[r].commit = IF rev_infos[r].base_rev = None THEN None
                                   ELSE rev_infos[rev_infos[r].base_rev].commit
    /\ CommitsOf(r) # {} /\ Cardinality(ParentCommits(r)) <= 1 =>
          rev_infos[r].staged_git_tree # BaseGitTree(r)

C27_EmptyBaseReached ==
    \E r \in Made : WithCommit(r) # {} /\ NonEmpty(r) = {}

\* the refname is registered in the all-refs tree
Registered(ref) == \E j \in 1..Len(all_refs) : all_refs[j].ref = ref

\* the candidates R, R___1 ... R___last that are not registered
FreeCandidates(refname, last) ==
    {k \in 0..last : ~Registered(Suffixed(refname, k))}

\* C28: make_unique_refname(R) returns the first of R, R___1 ... R___99 that
\* is not registered, and null only when all of them are registered.
C28_ProbesThrough99 ==
    make_unique_refname(State, MainRef, "default").ref =
        IF FreeCandidates(MainRef, 99) = {} THEN <<>>
        ELSE Suffixed(MainRef, First(FreeCandidates(MainRef, 99)))

\* what the loop does: R___98 is the last candidate that is probed
C28_ProbesThrough98 ==
    make_unique_refname(State, MainRef, "default").ref =
        IF FreeCandidates(MainRef, 98) = {} THEN <<>>
        ELSE Suffixed(MainRef, First(FreeCandidates(MainRef, 98)))

\* R and R___1 ... R___98 are registered, R___99 is not
C28_NinetyNineReached ==
    /\ FreeCandidates(MainRef, 98) = {}
    /\ ~Registered(Suffixed(MainRef, 99))

\* the state in which the nodes of the changeset just read are applied
BeforeNodes ==
    [State EXCEPT !.revisions =
        [revisions' EXCEPT ![Len(revisions')].branch = None,
                           ![Len(revisions')].tree = NoTree]]

\* the nodes of the changeset just read
NodesRead ==
    LET r == revisions'[Len(revisions')]
    IN hg_changectx_revision(revisions, r.branch_name, r.p1, r.p2, r.hgtree, r.tags,
                             r.source,
                             r.p2 # NoRev /\ revisions'[r.p2 + 1].no_more_children
                                 /\ ~revisions[r.p2 + 1].no_more_children)

\* the branches the nodes mark as changed, in the order they are first marked
MarkedBy(st, nodes) == ApplyNodes(get_parent_revision_tree(st), nodes, 1).changed

\* the revisions make_commit made on the branch for the changeset
CommittedFor(infos, branch, rev) ==
    {i \in 1..Len(infos) : infos[i].branch = branch /\ infos[i].rev = rev}

\* make_commit ran once for each marked branch and for no other, in the order
\* of the marks: each call leaves the branch a newer stage revision
CommittedInOrder(marked, infos, list, rev) ==
    /\ \A b \in 1..Len(list) :
         Cardinality(CommittedFor(infos, b, rev)) = IF SeqHas(marked, b) THEN 1 ELSE 0
    /\ \A i, j \in 1..Len(marked) :
         i < j => list[marked[i]].stage < list[marked[j]].stage
    /\ \A i \in 1..Len(marked) : list[marked[i]].HEAD \in CommittedFor(infos, marked[i], rev)

\* C29: within one changeset make_commit is called exactly once for each branch
\* marked changed, in the order in which the branches were first marked, and the
\* queue of changed branches is empty before the nodes of the next changeset
\* are applied.
C29_OneCommitPerChangedBranch ==
    [][(Len(revisions') = Len(revisions) + 1 /\ pc' = "loading") =>
            /\ branches_changed = <<>>
            /\ branches_changed' = <<>>
            /\ CommittedInOrder(MarkedBy(BeforeNodes, NodesRead), rev_infos',
                                branches_list', Len(revisions))]_vars

\* a changeset whose tag node and file nodes mark the same branch was applied,
\* the branch has one revision for it, and a later changeset followed
C29_Witness ==
    \E n \in 1..(Len(revisions) - 1) :
        LET r == revisions[n]
        IN /\ r.branch # None /\ r.tags # <<>>
           /\ r.p1 # NoRev /\ r.hgtree # revisions[r.p1 + 1].hgtree
           /\ Cardinality(CommittedFor(rev_infos, r.branch, r.rev)) = 1
           /\ branches_changed = <<>>
           /\ pc = "loading"

\* the calls made on the sink while the changeset just read was applied
NewCalls == SubSeq(sink_calls', Len(sink_calls) + 1, Len(sink_calls'))

\* the calls of one operation among the calls
CallsOf(calls, op) == {i \in 1..Len(calls) : calls[i].op = op}

\* the call queues the ref of a revision, in the namespace refs/revisions
ForRevisionRef(call) ==
    /\ call.op = "queue_update_ref"
    /\ IsPrefix(<<"refs", "revisions">>, call.arg[1])

\* the place of a call in the order of make_commit; the refs of the tags of the
\* revision come last
SinkOrder(call) ==
    CASE call.op = "hash_object" -> 1
      [] call.op = "update_index" -> 2
      [] call.op = "write_tree" -> 3
      [] call.op = "commit_tree" -> 4
      [] ForRevisionRef(call) -> 5
      [] OTHER -> 6

\* the tree of a revision, the empty tree when it has none
TreeOf(infos, r) ==
    IF r = None THEN empty_tree
    ELSE IF infos[r].tree = NoTree THEN empty_tree ELSE infos[r].tree

\* the paths at which the revision differs from the previous HEAD of its branch
StagedPaths(infos, r) ==
    {p \in PathSet : TreeOf(infos, r)[p] # TreeOf(infos, infos[r].prev_rev)[p]}

\* the calls are those of one make_commit for revision r, in its order
CallsOfCommit(calls, infos, r, cached) ==
    LET staged == StagedPaths(infos, r)
        blobs == {TreeOf(infos, r)[p] : p \in staged} \ {0}
        made == IF infos[r].rev_commit = None THEN 0 ELSE 1
    IN /\ \A i, j \in 1..Len(calls) : i < j => SinkOrder(calls[i]) <= SinkOrder(calls[j])
       /\ {calls[i].arg : i \in CallsOf(calls, "hash_object")} = blobs \ cached
       /\ Cardinality(CallsOf(calls, "hash_object")) = Cardinality(blobs \ cached)
       /\ Cardinality(CallsOf(calls, "update_index")) = IF staged = {} THEN 0 ELSE 1
       /\ \A i \in CallsOf(calls, "update_index") :
            /\ {calls[i].arg[k].path : k \in 1..Len(calls[i].arg)} = staged
            /\ \A k \in 1..Len(calls[i].arg) :
                 calls[i].arg[k].obj = TreeOf(infos, r)[calls[i].arg[k].path]
       /\ Cardinality(CallsOf(calls, "write_tree")) = IF staged = {} THEN 0 ELSE 1
       /\ Cardinality(CallsOf(calls, "commit_tree")) = made
       /\ \A i \in CallsOf(calls, "commit_tree") : calls[i].arg = infos[r].rev_commit
       /\ Cardinality({i \in 1..Len(calls) : ForRevisionRef(calls[i])}) = made
       /\ \A i \in 1..Len(calls) :
            ForRevisionRef(calls[i]) => calls[i].arg[2] = infos[r].rev_commit

\* the calls of the changeset are those of the commit of its one changed branch
CallsOfChangeset(calls, marked, infos, list, cached) ==
    /\ Len(marked) <= 1
    /\ marked = <<>> => calls = <<>>
    /\ marked # <<>> => CallsOfCommit(calls, infos, list[marked[1]].HEAD, cached)

\* C30: for each make_commit the sink operations occur in the order hash_object
\* for every staged blob that has no cached Git SHA-1, update_index with all
\* staged entries, write_tree, commit_tree, queue_update_ref for the ref of the
\* revision; write_tree is never issued before all the blob hashes of the
\* revision were submitted. update_index and write_tree are issued when the
\* stage list is not empty, commit_tree and the ref when a commit is needed.
C30_SinkOrder ==
    [][(Len(revisions') = Len(revisions) + 1 /\ pc' = "loading") =>
            CallsOfChangeset(NewCalls, MarkedBy(BeforeNodes, NodesRead), rev_infos',
                             branches_list', git_sha1)]_vars

\* the operations of the calls, in order
SinkOps == [i \in 1..Len(sink_calls) |-> sink_calls[i].op]

\* two commits were made; the second staged two entries and hashed one blob,
\* the other blob had its Git SHA-1 from the first
C30_Witness ==
    /\ SinkOps = << "hash_object", "update_index", "write_tree", "commit_tree",
                    "queue_update_ref",
                    "hash_object", "update_index", "write_tree", "commit_tree",
                    "queue_update_ref" >>
    /\ Len(sink_calls[7].arg) = 2
    /\ sink_calls[1].arg \in {sink_calls[7].arg[k].obj : k \in 1..2}

\* the place of the delete branch node among the nodes, 0 when there is none
DeleteNodeAt(nodes) ==
    IF \E i \in 1..Len(nodes) : nodes[i].kind = "branch" /\ nodes[i].action = "delete"
    THEN CHOOSE i \in 1..Len(nodes) :
            nodes[i].kind = "branch" /\ nodes[i].action = "delete"
    ELSE 0

\* the state in which node i of the changeset is applied
BeforeNode(st, nodes, i) ==
    ApplyNodes(get_parent_revision_tree(st), SubSeq(nodes, 1, i - 1), 1)

\* the delete branch node nulled the head branch and emptied the tree
Deleted(before, node) ==
    /\ apply_node(before, node).head = None
    /\ apply_node(before, node).base_tree = empty_tree

\* the delete branch node changed neither the head branch nor the tree
DeleteIgnored(before, node) ==
    /\ before.head # None
    /\ before.revisions[node.copyfrom_rev + 1].branch # before.head
    /\ apply_node(before, node).head = before.head
    /\ apply_node(before, node).base_tree = before.base_tree

\* a changeset with a delete branch node was applied: the node was reached
\* without an exception
DeleteApplied(st, nodes) ==
    /\ Len(revisions') = Len(revisions) + 1
    /\ DeleteNodeAt(nodes) # 0
    /\ ~BeforeNode(st, nodes, DeleteNodeAt(nodes)).error

\* C31: applying a delete branch node sets the head branch to null and
\* replaces the working tree with the empty tree.
C31_DeleteNullsHead ==
    [][DeleteApplied(BeforeNodes, NodesRead) =>
            Deleted(BeforeNode(BeforeNodes, NodesRead, DeleteNodeAt(NodesRead)),
                    NodesRead[DeleteNodeAt(NodesRead)])]_vars

\* what the code does with the nodes hg_reader makes: the revision the node
\* names is never on the head branch, and the node changes nothing
C31_DeleteChangesNothing ==
    [][DeleteApplied(BeforeNodes, NodesRead) =>
            DeleteIgnored(BeforeNode(BeforeNodes, NodesRead, DeleteNodeAt(NodesRead)),
                          NodesRead[DeleteNodeAt(NodesRead)])]_vars

\* a merge that ended the branch of its second parent was applied, and the
\* changeset stays on its branch with its tree
C31_IgnoredReached ==
    /\ pc = "loading"
    /\ revisions # <<>>
    /\ LET r == revisions[Len(revisions)]
       IN /\ r.p2 # NoRev
          /\ revisions[r.p2 + 1].no_more_children
          /\ head_branch # None
          /\ r.branch = head_branch
          /\ r.tree = r.hgtree
          /\ r.tree # empty_tree

\* a changeset whose tree is None was applied without an exception
NullTreeApplied ==
    /\ Len(revisions') = Len(revisions) + 1
    /\ pc' = "loading"
    /\ revisions'[Len(revisions')].tree = NoTree

\* make_commit left the sink and the HEAD of the branch alone
NothingCommitted(b) ==
    /\ sink_calls' = sink_calls
    /\ commits' = commits
    /\ queued_refs' = queued_refs
    /\ rev_infos'[branches_list'[b].HEAD].rev = NoRev
           \/ rev_infos'[branches_list'[b].HEAD].rev < Len(revisions)
    /\ b <= Len(branches_list) => branches_list'[b].HEAD = branches_list[b].HEAD

\* the stage revision holds nothing for the next commit
StageEmpty(stage) ==
    /\ stage.parents = <<>>
    /\ stage.revisions_to_merge = <<>>
    /\ stage.tags = <<>>
    /\ stage.cherry_pick_revs = <<>>

\* the stage revision is the one the nodes of the changeset wrote to
StageKept(st, b, stage, index) ==
    /\ index = st.branches[b].stage
    /\ stage = [st.revs[index] EXCEPT !.tree = NoTree]

C32_NullTreeKeepsStage ==
    [][NullTreeApplied =>
        \A i \in 1..Len(MarkedBy(BeforeNodes, NodesRead)) :
            LET b == MarkedBy(BeforeNodes, NodesRead)[i]
            IN /\ NothingCommitted(b)
               /\ StageKept(ApplyNodes(get_parent_revision_tree(BeforeNodes),
                                       NodesRead, 1),
                            b, rev_infos'[branches_list'[b].stage],
                            branches_list'[b].stage)]_vars

\* the tag of a changeset whose tree was None was written for a later commit
C32_TagCarriedOver ==
    \E i \in NullTrees :
        /\ revisions[i].tags # <<>>
        /\ pc = "loading"
        /\ QueuedFor(map_tag(revisions[i].tags[1])) # {}
               \/ WrittenFor(map_tag(revisions[i].tags[1])) # {}

\* the merge parent of a changeset whose tree was None is a parent of a later
\* commit of the branch
C32_ParentCarriedOver ==
    \E i \in NullTrees, c \in 1..Len(commits) :
        /\ pc = "loading"
        /\ revisions[i].branch # None
        /\ revisions[i].parent_revision = NoRev
        /\ commits[c].branch = revisions[i].branch
        /\ commits[c].rev > revisions[i].rev
        /\ commits[c].parents # <<>>

\* a changeset that was read continues p, and every other child of p in the
\* changelog was read before it
LastChildContinues(p) ==
    \E c \in 0..(Len(changectx_dict) - 1) :
        /\ revisions[c + 1].parent_revision = p
        /\ \A k \in Children(repository, p) \ {c} : k < c

\* the changesets not read yet that have p as a parent
UnreadChildren(p) == {k \in Children(repository, p) : k >= Len(changectx_dict)}

\* C33: the projector releases the tree of a parent exactly when a child
\* continues the branch of the parent and is its only remaining child; the
\* tree is never released while a child that is not processed yet needs it as
\* copy source, and no tree that apply_revision kept is None.
C33_ReleasedWhenLastChildContinues ==
    Len(revisions) = Len(changectx_dict) =>
        \A p \in 0..(Len(changectx_dict) - 1) :
            /\ changectx_dict[p + 1].tree = "None" <=> LastChildContinues(p)
            /\ changectx_dict[p + 1].tree = "None" => UnreadChildren(p) = {}
            /\ pc # "failed" => revisions[p + 1].tree # NoTree

\* a parent with two children, of which the first started a branch and the
\* second continues it, was released
C33_Witness ==
    /\ pc = "loading"
    /\ \E p \in 0..(Len(changectx_dict) - 1) :
          /\ changectx_dict[p + 1].tree = "None"
          /\ Cardinality(Children(repository, p)) = 2

\* a parent that a child continues still has its tree for the child that is
\* not read yet
C33_KeptReached ==
    /\ pc = "loading"
    /\ \E p \in 0..(Len(changectx_dict) - 1) :
          /\ changectx_dict[p + 1].tree = "unset"
          /\ UnreadChildren(p) # {}
          /\ \E c \in 0..(Len(changectx_dict) - 1) : revisions[c + 1].parent_revision = p

\* the revisions of the branch that set_rev_info recorded, by make_commit
RecordedOn(b) ==
    {i \in 1..Len(rev_infos) : rev_infos[i].branch = b /\ rev_infos[i].rev # NoRev}

\* the revision recorded on the branch for the largest revision number that
\* is not greater than r, null when r is before the first
RecordedAt(b, r) ==
    LET upto == {i \in RecordedOn(b) : rev_infos[i].rev <= r}
    IN IF upto = {} THEN None
       ELSE CHOOSE i \in upto : \A j \in upto : rev_infos[j].rev <= rev_infos[i].rev

\* get_revision agrees with the recorded revisions for the numbers from r on
RevisionsFrom(first) ==
    \A b \in 1..Len(branches_list) :
        RecordedOn(b) # {} =>
            \A r \in first..MaxRevs :
                get_revision(branches_list[b], r) = RecordedAt(b, r)

\* C34: after set_rev_info calls with non-decreasing revision numbers,
\* get_revision(r) returns the branch revision recorded for the largest
\* revision number not greater than r, for every r including 0, and null for r
\* before the first revision of the branch.
C34_GetRevision == RevisionsFrom(0)

\* what the code does: the same for every r above 0; for 0 it returns HEAD
C34_ExceptRevisionZero ==
    /\ RevisionsFrom(1)
    /\ \A b \in 1..Len(branches_list) :
          get_revision(branches_list[b], 0) = branches_list[b].HEAD

\* a branch has revisions for changeset 0 and for a later one, and
\* get_revision(0) is the later one
C34_HeadForZeroReached ==
    \E b \in 1..Len(branches_list) :
        /\ Cardinality(RecordedOn(b)) >= 2
        /\ RecordedAt(b, 0) # None
        /\ get_revision(branches_list[b], 0) # RecordedAt(b, 0)

\* a branch that starts after changeset 0 gives HEAD, not null, for 0
C34_HeadBeforeFirstReached ==
    \E b \in 1..Len(branches_list) :
        /\ RecordedOn(b) # {}
        /\ RecordedAt(b, 0) = None
        /\ get_revision(branches_list[b], 0) # None

\* the revisions that are the stage of a branch: they have no successor
Stages == {branches_list[b].stage : b \in 1..Len(branches_list)}

\* the merged_revisions dictionary observed through revision i
MergedOf(infos, dicts, i) == dicts[infos[i].merged_revisions]

\* a revision shares the dictionary of its previous revision, or has a copy
\* that it has written to and that only its own successors share
CopiedOnWrite(infos, dicts) ==
    \A i \in 1..Len(infos) :
        infos[i].prev_rev # None =>
            \/ infos[i].merged_revisions = infos[infos[i].prev_rev].merged_revisions
            \/ /\ MergedOf(infos, dicts, i) # MergedOf(infos, dicts, infos[i].prev_rev)
               /\ \A j \in 1..Len(infos) :
                     infos[j].merged_revisions = infos[i].merged_revisions =>
                        j >= i /\ infos[j].branch = infos[i].branch

\* C35: recording a merged revision never changes the merged_revisions map
\* observed through the previous revision or an earlier one: the map of a
\* revision that has a successor stage is the same after every step, and a
\* revision shares the dictionary of its previous revision unless it has
\* written to it, in which case the dictionary is a copy of its own.
C35_MergedRevisionsCopyOnWrite ==
    [][/\ \A i \in 1..Len(rev_infos) :
             i \notin Stages =>
                MergedOf(rev_infos', maps', i) = MergedOf(rev_infos, maps, i)
       /\ CopiedOnWrite(rev_infos', maps')]_vars

\* a revision has recorded a merged revision in a dictionary of its own, its
\* previous revision, which has merged revisions too, still shows the old
\* ones, and the stage that follows shares the new dictionary
C35_Witness ==
    \E b \in 1..Len(branches_list) :
        LET stage == rev_infos[branches_list[b].stage]
            HEAD == rev_infos[stage.prev_rev]
        IN /\ stage.merged_revisions = HEAD.merged_revisions
           /\ HEAD.prev_rev # None
           /\ maps[rev_infos[HEAD.prev_rev].merged_revisions] # <<>>
           /\ maps[HEAD.merged_revisions] # maps[rev_infos[HEAD.prev_rev].merged_revisions]

\* the stage of every branch follows its HEAD
StageFollowsHead(list, infos) ==
    \A b \in 1..Len(list) : infos[list[b].stage].prev_rev = list[b].HEAD

\* a revision as project_branch_rev.__init__ leaves it after the revision HEAD
FreshAfter(stage, HEAD) ==
    /\ stage.parents = <<>>
    /\ stage.revisions_to_merge = <<>>
    /\ stage.tags = <<>>
    /\ stage.cherry_pick_revs = <<>>
    /\ stage.props_list = <<>>
    /\ stage.tree = HEAD.tree
    /\ stage.merged_revisions = HEAD.merged_revisions

\* the branches whose stage the step has promoted to HEAD
Promoted ==
    {b \in 1..Len(branches_list') :
        IF b > Len(branches_list)
        THEN rev_infos'[branches_list'[b].HEAD].prev_rev # None
        ELSE branches_list'[b].HEAD # branches_list[b].HEAD}

\* C36: the stage of a branch always has the HEAD of the branch as its
\* previous revision, and after every make_commit that promotes the stage the
\* new stage has no parents, no pending merge revisions, no tags, no
\* cherry-picks and no revision properties, and the tree and the
\* merged_revisions of the new HEAD.
C36_StageFollowsHead ==
    [][/\ StageFollowsHead(branches_list', rev_infos')
       /\ \A b \in Promoted :
             FreshAfter(rev_infos'[branches_list'[b].stage],
                        rev_infos'[branches_list'[b].HEAD])]_vars

\* a stage that had a merge parent was promoted, and the stage that follows
\* it is empty and shares its tree and merged revisions
C36_Witness ==
    \E b \in 1..Len(branches_list) :
        LET stage == rev_infos[branches_list[b].stage]
            HEAD == rev_infos[branches_list[b].HEAD]
        IN /\ stage.prev_rev = branches_list[b].HEAD
           /\ HEAD.prev_rev # None
           /\ Len(HEAD.parents) >= 2
           /\ HEAD.props_list # <<>>
           /\ maps[HEAD.merged_revisions] # <<>>
           /\ FreshAfter(stage, HEAD)

\* the same after a stage that had a tag
C36_TaggedReached ==
    \E b \in 1..Len(branches_list) :
        LET stage == rev_infos[branches_list[b].stage]
            HEAD == rev_infos[branches_list[b].HEAD]
        IN /\ stage.prev_rev = branches_list[b].HEAD
           /\ HEAD.tags # <<>>
           /\ FreshAfter(stage, HEAD)

\* the nodes of the changeset that reach add_branch_to_merge
MergeNodes(nodes) ==
    {i \in 1..Len(nodes) :
        /\ nodes[i].kind = "branch"
        /\ \/ nodes[i].action = "parent"
           \/ /\ nodes[i].action = "add"
              /\ nodes[i].copyfrom_rev # NoRev
              /\ get_branch_map(nodes[i].path) # NoBranchMap}

\* the state in which add_branch_to_merge is called for node i
AtMerge(st, nodes, i) ==
    IF nodes[i].action = "add"
    THEN AddBranch(BeforeNode(st, nodes, i), get_branch_map(nodes[i].path))
    ELSE BeforeNode(st, nodes, i)

\* the branch revision add_branch_to_merge passes to add_parent_revision
RevToMerge(at, node) ==
    LET copy_source_rev == at.revisions[node.copyfrom_rev + 1]
    IN IF copy_source_rev.branch = None THEN None
       ELSE get_revision(at.branches[copy_source_rev.branch], copy_source_rev.rev)

\* the nodes that add a merge parent to the stage
MergeNodesOf(st, nodes, stage) ==
    {i \in MergeNodes(nodes) :
        /\ AtMerge(st, nodes, i).head # None
        /\ AtMerge(st, nodes, i).branches[AtMerge(st, nodes, i).head].stage = stage
        /\ RevToMerge(AtMerge(st, nodes, i), nodes[i]) # None}

\* the revisions the nodes of the changeset add to the stage
AddedTo(st, nodes, stage) ==
    {RevToMerge(AtMerge(st, nodes, i), nodes[i]) : i \in MergeNodesOf(st, nodes, stage)}

\* those of them that were merged into the stage when they were added
MergedWhenAdded(st, nodes, stage) ==
    {RevToMerge(AtMerge(st, nodes, i), nodes[i]) :
        i \in {k \in MergeNodesOf(st, nodes, stage) :
                    is_merged_from(AtMerge(st, nodes, k), stage,
                                   RevToMerge(AtMerge(st, nodes, k), nodes[k]))}}

\* the places of the parents of revision h that are revisions of the branch
ParentsFrom(infos, h, branch) ==
    {k \in 1..Len(infos[h].parents) : infos[infos[h].parents[k]].branch = branch}

\* revision h has at most one parent from every other branch, the highest of
\* the revisions added from it, and no parent that was merged when added
OneParentPerBranch(infos, h, added, merged) ==
    /\ \A branch \in {infos[i].branch : i \in 1..Len(infos)} \ {infos[h].branch} :
          /\ Cardinality(ParentsFrom(infos, h, branch)) <= 1
          /\ added # {} =>
                \A k \in ParentsFrom(infos, h, branch) :
                    /\ infos[h].parents[k] \in added
                    /\ \A r \in added :
                          (infos[r].branch = branch /\ infos[r].tree # NoTree) =>
                              infos[r].rev <= infos[infos[h].parents[k]].rev
    /\ \A r \in merged \ {infos[h].prev_rev} : ~SeqHas(infos[h].parents, r)

\* C37: when several revisions of one source branch are added as merge
\* parents to one stage, the commit has at most one parent from that branch,
\* the highest-numbered revision added; a revision that is already merged
\* into the stage is not added as a parent.
C37_OneParentPerBranch ==
    [][(Len(revisions') = Len(revisions) + 1 /\ pc' = "loading") =>
            \A b \in 1..Len(branches_list') :
                OneParentPerBranch(rev_infos', branches_list'[b].HEAD,
                    AddedTo(BeforeNodes, NodesRead, branches_list'[b].HEAD),
                    MergedWhenAdded(BeforeNodes, NodesRead, branches_list'[b].HEAD))]_vars

\* a changeset that starts a branch has two parents on one other branch, and
\* the revision made for it has one parent, the higher of the two
C37_Witness ==
    /\ pc = "loading"
    /\ revisions # <<>>
    /\ LET r == revisions[Len(revisions)]
       IN /\ r.p1 >= 1 /\ r.p2 >= 1 /\ r.p1 # r.p2
          /\ r.branch # None
          /\ revisions[r.p1 + 1].branch = revisions[r.p2 + 1].branch
          /\ revisions[r.p1 + 1].branch \notin {None, r.branch}
          /\ LET HEAD == rev_infos[branches_list[r.branch].HEAD]
             IN /\ HEAD.rev = r.rev
                /\ Len(HEAD.parents) = 1
                /\ rev_infos[HEAD.parents[1]].branch = revisions[r.p1 + 1].branch
                /\ rev_infos[HEAD.parents[1]].rev = IF r.p1 > r.p2 THEN r.p1 ELSE r.p2

\* the paragraphs of the message commit_tree received for the commit: the log
\* and the cherry-pick lines get_commit_revision_props appends to it
MessageOf(c) ==
    c.log \o (IF c.cherry_picks = <<>> THEN <<>> ELSE <<"Cherry-picked-from:">>)

\* the message has a paragraph that is not empty
HasText(msg) == \E k \in 1..Len(msg) : msg[k] # ""

\* the commit was made for a changeset with an empty log whose tree is the
\* committed tree of the base parent
EmptyLogNoDifference(c) ==
    /\ revisions[c.rev + 1].log = ""
    /\ rev_infos[c.rev_info].base_rev # None
    /\ rev_infos[c.rev_info].tree = rev_infos[rev_infos[c.rev_info].base_rev].committed_tree

\* C38: every commit_tree call receives a message with at least one
\* non-empty paragraph: the log, or for an empty log the description
\* synthesized from the difference to the base parent, or the HG-revision
\* line when there is no description.
C38_MessageNotEmpty ==
    \A c \in 1..Len(commits) : HasText(MessageOf(commits[c]))

\* what the code does: the message has text unless the log is empty and the
\* tree does not differ from the base parent, where it is one empty paragraph
C38_EmptyOnlyWithoutDifference ==
    \A c \in 1..Len(commits) :
        \/ HasText(MessageOf(commits[c]))
        \/ /\ EmptyLogNoDifference(commits[c])
           /\ commits[c].log = <<"">>

\* a merge with an empty log and the tree of its base parent was committed
\* with an empty paragraph for a message
C38_EmptyMessageReached ==
    \E c \in 1..Len(commits) :
        /\ commits[c].log = <<"">>
        /\ commits[c].cherry_picks = <<>>
        /\ Len(commits[c].parents) >= 2
        /\ EmptyLogNoDifference(commits[c])

\* a changeset with an empty log that changes files was committed with the
\* synthesized description
C38_DescriptionReached ==
    \E c \in 1..Len(commits) :
        /\ revisions[commits[c].rev + 1].log = ""
        /\ HasText(commits[c].log)

\* the difference that was described
Described == repository[1]

\* long_title of the difference
LongTitleOf(d) == LongTitle(d.added, d.deleted, d.changed, d.renamed)

\* the number of items of the difference
ItemsOf(d) == Len(d.added) + Len(d.deleted) + Len(d.changed) + Len(d.renamed)

\* the message is the short title followed by the lines of the items
TitleAndLines(msg, d) ==
    /\ Len(msg) = 2
    /\ msg[1] = ShortTitle(d.added, d.deleted, d.changed, d.renamed)
    /\ msg[2] = JoinLog(ItemLines("Added", d.added, 1) \o ItemLines("Deleted", d.deleted, 1)
                        \o ItemLines("Changed", d.changed, 1)
                        \o ItemLines("Renamed", d.renamed, 1), 1)

\* C39 as stated: a one-line description of at most 100 characters is used
\* alone as the message; only when it is longer than 100 characters is the
\* message a short title followed by per-item lines.
C39_OneLineUpTo100 ==
    commits # <<>> =>
        /\ Len(LongTitleOf(Described)) <= 100 => commits[1].log = <<LongTitleOf(Described)>>
        /\ TitleAndLines(commits[1].log, Described) => Len(LongTitleOf(Described)) > 100

\* C39: a one-line description shorter than 100 characters is used alone as
\* the message; when it has 100 characters or more the message is a short
\* title followed by a paragraph of per-item lines, and for a difference of
\* one item the line of that item alone.
C39_OneLineBelow100 ==
    commits # <<>> =>
        IF Len(LongTitleOf(Described)) < 100
        THEN commits[1].log = <<LongTitleOf(Described)>>
        ELSE IF ItemsOf(Described) >= 2
        THEN TitleAndLines(commits[1].log, Described)
        ELSE /\ Len(commits[1].log) = 1
             /\ commits[1].log[1] # LongTitleOf(Described)
             /\ commits[1].log[1] \in
                    {"Added file: " \o p : p \in DescPaths}
                    \cup {"Deleted file: " \o p : p \in DescPaths}
                    \cup {"Changed file: " \o p : p \in DescPaths}

\* a description of exactly 100 characters for two items was replaced by the
\* title and the lines
C39_Witness ==
    /\ commits # <<>>
    /\ Len(LongTitleOf(Described)) = 100
    /\ ItemsOf(Described) = 2
    /\ TitleAndLines(commits[1].log, Described)

\* a description of 99 characters is the message
C39_OneLineReached ==
    /\ commits # <<>>
    /\ Len(LongTitleOf(Described)) = 99
    /\ commits[1].log = <<LongTitleOf(Described)>>

\* a description of exactly 100 characters for one item was replaced by the
\* line of the item
C39_SingleItemReached ==
    /\ commits # <<>>
    /\ Len(LongTitleOf(Described)) = 100
    /\ ItemsOf(Described) = 1
    /\ Len(commits[1].log) = 1
    /\ commits[1].log # <<LongTitleOf(Described)>>

\* the revisions make_commit has promoted: every revision after the first HEAD
\* of its branch that is not the stage
Committed ==
    {i \in 1..Len(rev_infos) : rev_infos[i].prev_rev # None /\ i \notin Stages}

\* C40: after make_commit the committed_git_tree of the revision is its
\* staged_git_tree, and when the revision has a commit, made on it or
\* inherited, committed_git_tree is the tree that commit was created with.
C40_CommittedTreeIsStaged ==
    \A i \in Committed :
        /\ rev_infos[i].committed_git_tree = rev_infos[i].staged_git_tree
        /\ rev_infos[i].staged_git_tree # NoTree
        /\ rev_infos[i].commit # None =>
              commits[rev_infos[i].commit].tree = rev_infos[i].committed_git_tree

\* a revision inherited the commit of its base parent, another one has a
\* commit made on it, and a third has no commit
C40_Witness ==
    /\ \E i \in Committed :
          /\ rev_infos[i].commit # None
          /\ rev_infos[i].rev_commit = None
          /\ rev_infos[i].committed_git_tree # initial_git_tree
    /\ \E i \in Committed : rev_infos[i].rev_commit # None
    /\ \E i \in Committed : rev_infos[i].commit = None

====
